---------------------------- MODULE Spec2Model ----------------------------
(***************************************************************************)
(* A model of grok-code-rs: the Session message log, the tool dispatcher   *)
(* with its per-tool executors and the event bus, and the MultiModelAgent  *)
(* turn loop with provider fallback.                                       *)
(*                                                                         *)
(* Rust values are modelled as follows.                                    *)
(*   Option<T>      a sequence of length 0 (None) or 1 (Some)              *)
(*   String output  a sequence of chunks; push_str is concatenation        *)
(*   Result<T, E>   a record [ok |-> BOOLEAN, val |-> ...]                 *)
(*   serde_json::to_string(v)   the tagged value [json |-> v]              *)
(* Wall-clock fields (timestamp_secs, start_time, duration_ms) are not     *)
(* modelled: no control flow of the modelled code reads them.              *)
(***************************************************************************)
EXTENDS Integers, Sequences, FiniteSets, TLC

VARIABLES
    messages,       \* Session.messages: Vec<ChatMessage>
    bus,            \* events handed to EventSender::send, in send order
    receiverAlive,  \* FALSE once the UnboundedReceiver has been dropped
    disp,           \* one record per in-flight ToolExecutor dispatch
    agent,          \* the background task of Session::handle_user_input
    http,           \* the local state of MultiModelAgent::http_post
    disk,           \* the files on disk: path -> contents, None when absent
    planner,        \* a SimpleEditPlanner and the position of its caller
    history_file,   \* ~/.grok_code/chat_history.json: None when absent
    tui,            \* AppState of the TUI, its event loop and the tasks it spawned
    validation,     \* one ToolRegistry::validate_args call: its inputs and result
    fsread,         \* one fs.read of a file with a range: its inputs and outcome
    load_result     \* what the last Session::load_into call returned, None before

vars == <<messages, bus, receiverAlive, disp, agent, http, disk, planner,
          history_file, tui, validation, fsread, load_result>>

(***************************************************************************)
(* Bounds of the model.                                                    *)
(***************************************************************************)
MaxMessages == 2
MaxChunks == 1

None == <<>>
Some(x) == <<x>>

Ok(v) == [ok |-> TRUE, val |-> v]
Err(e) == [ok |-> FALSE, val |-> [error |-> e]]
Unit == [unit |-> TRUE]

Ids == {"a", "b"}
Contents == {"c1", "c2"}
Chunks == {"x"}
Payloads == {"p"}
\* serde_json::Value payloads: an object and Value::Null
JsonPayloads == {"p", "null"}
ToolStatus == {"Running", "Completed", "Failed"}

(***************************************************************************)
(* Session                                                                 *)
(***************************************************************************)
ChatMessage(role, content, tool_info) ==
    [role |-> role, content |-> content, tool_info |-> tool_info]

IsToolWithId(msg, id) ==
    /\ msg.role = "Tool"
    /\ msg.tool_info # None
    /\ msg.tool_info[1].id = id

\* messages.iter_mut().rev().find(..) scanning from the head instead
FindFirst(msgs, id) ==
    LET hits == {k \in 1..Len(msgs) : IsToolWithId(msgs[k], id)}
    IN  IF hits = {} THEN 0 ELSE CHOOSE k \in hits : \A j \in hits : k <= j

\* messages.iter_mut().rev().find(|msg| role == Tool && tool_info.id == id):
\* the index of the last matching message, 0 when there is none
FindLast(msgs, id) ==
    LET hits == {k \in 1..Len(msgs) : IsToolWithId(msgs[k], id)}
    IN  IF hits = {} THEN 0 ELSE CHOOSE k \in hits : \A j \in hits : j <= k

\* the update every handle_tool_* applies to the message it found
UpdateTool(msgs, id, f(_)) ==
    LET k == FindLast(msgs, id)
    IN  IF k = 0 THEN msgs
        ELSE [msgs EXCEPT ![k].tool_info = Some(f(msgs[k].tool_info[1]))]

push(msgs, m) == Append(msgs, m)

add_user_message(msgs, content) == push(msgs, ChatMessage("User", content, None))
add_agent_message(msgs, content) == push(msgs, ChatMessage("Agent", content, None))
add_system_message(msgs, content) == push(msgs, ChatMessage("System", content, None))
add_error_message(msgs, content) == push(msgs, ChatMessage("Error", content, None))

\* a buggy variant: the tool message is inserted at the head
add_tool_message_front(msgs, tool_info) ==
    <<ChatMessage("Tool", <<"Agent ran", tool_info.summary>>, Some(tool_info))>> \o msgs

add_tool_message(msgs, tool_info) ==
    push(msgs, ChatMessage("Tool", <<"Agent ran", tool_info.summary>>, Some(tool_info)))

NewToolInfo(id) ==
    [id |-> id, summary |-> "s", status |-> "Running",
     stdout |-> <<>>, stderr |-> <<>>, result |-> None]

handle_tool_begin(msgs, id) == add_tool_message(msgs, NewToolInfo(id))

handle_tool_progress(msgs, id) == msgs

handle_tool_stdout(msgs, id, chunk) ==
    LET f(ti) == [ti EXCEPT !.stdout = @ \o <<chunk>>] IN UpdateTool(msgs, id, f)

handle_tool_stderr(msgs, id, chunk) ==
    LET f(ti) == [ti EXCEPT !.stderr = @ \o <<chunk>>] IN UpdateTool(msgs, id, f)

handle_tool_result(msgs, id, payload) ==
    LET f(ti) == [ti EXCEPT !.result = Some(payload)] IN UpdateTool(msgs, id, f)

\* a variant that records only a successful end
handle_tool_end_ok_only(msgs, id, ok) ==
    LET f(ti) == [ti EXCEPT !.status = IF ok THEN "Completed" ELSE @]
    IN  UpdateTool(msgs, id, f)

handle_tool_end(msgs, id, ok) ==
    LET f(ti) == [ti EXCEPT !.status = IF ok THEN "Completed" ELSE "Failed"]
    IN  UpdateTool(msgs, id, f)

clear(msgs) == add_system_message(<<>>, "cleared")

replace_messages(msgs, new) == new

\* vectors handed to replace_messages
SavedVectors ==
    { <<>>,
      <<ChatMessage("User", "c1", None)>>,
      <<ChatMessage("Tool", <<"Agent ran", "s">>,
                    Some([NewToolInfo("a") EXCEPT !.status = "Completed"]))>> }

(***************************************************************************)
(* The history file.  JSON text is a tagged tuple: <<"null">>, or the tag   *)
(* of the value's kind followed by its parts.  fs::write and                *)
(* fs::read_to_string of the file the session itself created succeed.       *)
(***************************************************************************)
JsonNull == <<"null">>

\* Serialize for serde_json::Value
ser_value(v) == IF v = "null" THEN JsonNull ELSE <<"object", v>>
de_value(j) == IF j = JsonNull THEN "null" ELSE j[2]

\* Serialize for Option<T>: None is written as null, Some(v) as v itself
ser_option(o, ser(_)) == IF o = None THEN JsonNull ELSE ser(o[1])

\* Deserialize for Option<T>: null is read as None before T is looked at
de_option(j, de(_)) == IF j = JsonNull THEN None ELSE Some(de(j))

\* #[derive(Serialize, Deserialize)] of ToolMessageInfo and ChatMessage
ser_tool_info(ti) == <<"struct", [ti EXCEPT !.result = ser_option(@, ser_value)]>>
de_tool_info(j) == [j[2] EXCEPT !.result = de_option(@, de_value)]

ser_message(m) == <<"struct", [m EXCEPT !.tool_info = ser_option(@, ser_tool_info)]>>
de_message(j) == [j[2] EXCEPT !.tool_info = de_option(@, de_tool_info)]

\* serde_json::to_string(&self.messages)
messages_to_string(msgs) == [k \in 1..Len(msgs) |-> ser_message(msgs[k])]

\* serde_json::from_str::<Vec<ChatMessage>>(&json)
messages_from_str(json) == [k \in 1..Len(json) |-> de_message(json[k])]

\* a variant that writes the vector without its newest message
save_before_push(msgs) == Some(messages_to_string(SubSeq(msgs, 1, Len(msgs) - 1)))

\* Session::save: the file after fs::write(&path, json)
save(msgs) == Some(messages_to_string(msgs))

\* files of other origin at the history path: bytes that are not UTF-8, and
\* text that is not the JSON of a message array
NotUtf8 == <<<<"not_utf8", Unit>>>>
NotMessages == <<<<"garbage", Unit>>>>
ForeignFiles == {NotUtf8, NotMessages}

\* fs::read_to_string(&path)
read_to_string(bytes) ==
    IF \E k \in 1..Len(bytes) : bytes[k][1] = "not_utf8"
    THEN Err("stream did not contain valid UTF-8")
    ELSE Ok(bytes)

\* serde_json::from_str::<Vec<ChatMessage>>(&json), with its error
from_str(json) ==
    IF \E k \in 1..Len(json) : json[k][1] # "struct"
    THEN Err("expected value")
    ELSE Ok(messages_from_str(json))

\* a variant that appends the welcome message to every loaded vector
load_into_always_welcome(msgs, file) ==
    IF file = None THEN [result |-> Err("No history file found"), messages |-> msgs]
    ELSE IF ~read_to_string(file[1]).ok
    THEN [result |-> read_to_string(file[1]), messages |-> msgs]
    ELSE IF ~from_str(file[1]).ok
    THEN [result |-> from_str(file[1]), messages |-> msgs]
    ELSE [result |-> Ok(Unit),
          messages |-> add_system_message(from_str(file[1]).val, "welcome")]

\* a variant that empties the vector before it parses the file
load_into_clears_first(msgs, file) ==
    IF file = None THEN [result |-> Err("No history file found"), messages |-> msgs]
    ELSE IF ~read_to_string(file[1]).ok
    THEN [result |-> read_to_string(file[1]), messages |-> msgs]
    ELSE IF ~from_str(file[1]).ok
    THEN [result |-> from_str(file[1]), messages |-> <<>>]
    ELSE LET loaded == from_str(file[1]).val
         IN  [result |-> Ok(Unit),
              messages |-> IF loaded = <<>>
                           THEN add_system_message(loaded, "welcome")
                           ELSE loaded]

\* Session::load_into(None): the result and the messages it leaves
load_into(msgs, file) ==
    IF file = None THEN [result |-> Err("No history file found"), messages |-> msgs]
    ELSE IF ~read_to_string(file[1]).ok
    THEN [result |-> read_to_string(file[1]), messages |-> msgs]
    ELSE IF ~from_str(file[1]).ok
    THEN [result |-> from_str(file[1]), messages |-> msgs]
    ELSE LET loaded == from_str(file[1]).val
         IN  [result |-> Ok(Unit),
              messages |-> IF loaded = <<>>
                           THEN add_system_message(loaded, "welcome")
                           ELSE loaded]

(***************************************************************************)
(* Session operations as actions.  The other components are left alone.    *)
(***************************************************************************)
otherThanSession ==
    <<bus, receiverAlive, disp, agent, http, disk, planner, tui, validation, fsread, load_result>>

CanPush == Len(messages) < MaxMessages

\* stdout and stderr chunks held by the session's tool messages
RECURSIVE NumChunks(_)
NumChunks(msgs) ==
    IF msgs = <<>> THEN 0
    ELSE NumChunks(Tail(msgs)) +
         (IF Head(msgs).tool_info = None THEN 0
          ELSE Len(Head(msgs).tool_info[1].stdout) + Len(Head(msgs).tool_info[1].stderr))

CanGrow == NumChunks(messages) < MaxChunks

AddUserMessage ==
    /\ CanPush
    /\ \E c \in Contents : messages' = add_user_message(messages, c)
    /\ UNCHANGED <<history_file, otherThanSession>>

AddAgentMessage ==
    /\ CanPush
    /\ \E c \in Contents : messages' = add_agent_message(messages, c)
    /\ history_file' = save(messages')
    /\ UNCHANGED otherThanSession

AddSystemMessage ==
    /\ CanPush
    /\ \E c \in Contents : messages' = add_system_message(messages, c)
    /\ UNCHANGED <<history_file, otherThanSession>>

AddErrorMessage ==
    /\ CanPush
    /\ \E c \in Contents : messages' = add_error_message(messages, c)
    /\ UNCHANGED <<history_file, otherThanSession>>

AddToolMessage ==
    /\ CanPush
    /\ \E id \in Ids, st \in ToolStatus :
          messages' = add_tool_message(messages, [NewToolInfo(id) EXCEPT !.status = st])
    /\ UNCHANGED <<history_file, otherThanSession>>

HandleToolBegin(id) ==
    /\ CanPush
    /\ messages' = handle_tool_begin(messages, id)
    /\ UNCHANGED <<history_file, otherThanSession>>

HandleToolProgress(id) ==
    /\ messages' = handle_tool_progress(messages, id)
    /\ UNCHANGED <<history_file, otherThanSession>>

HandleToolStdout(id) ==
    /\ CanGrow
    /\ \E c \in Chunks : messages' = handle_tool_stdout(messages, id, c)
    /\ UNCHANGED <<history_file, otherThanSession>>

HandleToolStderr(id) ==
    /\ CanGrow
    /\ \E c \in Chunks : messages' = handle_tool_stderr(messages, id, c)
    /\ UNCHANGED <<history_file, otherThanSession>>

HandleToolResultFrom(id, payloads) ==
    /\ \E p \in payloads : messages' = handle_tool_result(messages, id, p)
    /\ UNCHANGED <<history_file, otherThanSession>>

HandleToolResult(id) == HandleToolResultFrom(id, Payloads)

HandleToolEnd(id) ==
    /\ \E ok \in BOOLEAN : messages' = handle_tool_end(messages, id, ok)
    /\ UNCHANGED <<history_file, otherThanSession>>

Clear ==
    /\ messages' = clear(messages)
    /\ UNCHANGED <<history_file, otherThanSession>>

ReplaceMessages ==
    /\ \E new \in SavedVectors : messages' = replace_messages(messages, new)
    /\ UNCHANGED <<history_file, otherThanSession>>

\* Session::save called by itself
Save ==
    /\ history_file' = save(messages)
    /\ UNCHANGED <<messages, otherThanSession>>

\* Session::load_into(None)
LoadInto ==
    /\ messages' = load_into(messages, history_file).messages
    /\ load_result' = Some(load_into(messages, history_file).result)
    /\ UNCHANGED <<history_file, bus, receiverAlive, disp, agent, http, disk,
                   planner, tui, validation, fsread>>

\* another program leaves a file of its own at the history path
ForeignFile ==
    /\ \E bytes \in ForeignFiles : history_file' = Some(bytes)
    /\ UNCHANGED <<messages, otherThanSession>>

\* the mutators that are meant to keep every existing message in place
SessionAppendStep ==
    \/ AddUserMessage \/ AddAgentMessage \/ AddSystemMessage \/ AddErrorMessage
    \/ AddToolMessage
    \/ \E id \in Ids :
          \/ HandleToolBegin(id) \/ HandleToolProgress(id)
          \/ HandleToolStdout(id) \/ HandleToolStderr(id)
          \/ HandleToolResult(id) \/ HandleToolEnd(id)

SessionNext == SessionAppendStep \/ Clear \/ ReplaceMessages

(***************************************************************************)
(* Event bus                                                               *)
(***************************************************************************)
MaxLines == 2
MaxTurns == 1
MaxCalls == 2

\* room for every event of the bounded runs, so that the log loses nothing
MaxBus == 4 + 2 * (MaxTurns + 1) + (2 + MaxTurns * MaxCalls) * (5 + MaxLines)

\* AppEvent values
AppEvent(type, id, data) == [type |-> type, id |-> id, data |-> data]
ToolBegin(id, tool) == AppEvent("ToolBegin", id, tool)
ToolProgress(id) == AppEvent("ToolProgress", id, "progress")
ToolStdout(id, chunk) == AppEvent("ToolStdout", id, chunk)
ToolStderr(id, chunk) == AppEvent("ToolStderr", id, chunk)
ToolResult(id, payload) == AppEvent("ToolResult", id, payload)
ToolEnd(id, ok) == AppEvent("ToolEnd", id, ok)
ErrorEvent(message) == AppEvent("Error", "", message)
PlainEvent(type) == AppEvent(type, "", "")
ResultEvent(type, data) == AppEvent(type, "", data)

\* EventSender::send: Ok unless the receiver is gone (ChannelClosed)
SendOk == receiverAlive

\* bus logs the event of every send call, in order; the channel has taken
\* those sent while the receiver was alive
Send(b, e) ==
    IF agent.recording /\ Len(b) < MaxBus THEN Append(b, e) ELSE b

\* the consumer drops the UnboundedReceiver
DropReceiver ==
    /\ receiverAlive
    /\ receiverAlive' = FALSE
    /\ UNCHANGED <<load_result, fsread, validation, tui, history_file, disk, planner, messages, bus, disp, agent, http>>

RECURSIVE SendAll(_, _)
SendAll(b, es) == IF es = <<>> THEN b ELSE SendAll(Send(b, Head(es)), Tail(es))


(***************************************************************************)
(* Tool dispatcher and per-tool executors                                  *)
(***************************************************************************)
Slots == {1, 2}
SlotId(s) == IF s = 1 THEN "a" ELSE "b"

ToolNames == {"FsRead", "FsSearch", "FsWrite", "FsApplyPatch", "ShellExec",
              "LargeContextFetch"}
FsTools == {"FsRead", "FsSearch", "FsWrite"}
ArgClasses == {"valid", "mistyped", "empty_command"}

\* the scaled-down output cap and the sizes a serialized result can have
max_output_size == 2
OutputSizes == {max_output_size, max_output_size + 1}

Scripts == UNION {[1..n -> {"out", "err"}] : n \in 0..MaxLines}

NoChild == [state |-> "none", script |-> <<>>, written |-> 0, exit_code |-> 0,
            pipe_out |-> <<>>, pipe_err |-> <<>>]
NoTask == [st |-> "none", lines |-> <<>>]

IdleDisp ==
    [pc |-> "idle", id |-> "", tool |-> "", args |-> "", legacy |-> FALSE,
     result |-> None, ret |-> None, wait_result |-> "none",
     child |-> NoChild, stdout_task |-> NoTask, stderr_task |-> NoTask]

\* format!("{}\n", line)
Chunk(line) == <<line, "nl">>

\* lines.join("")
RECURSIVE Join(_)
Join(lines) == IF lines = <<>> THEN <<>> ELSE <<Head(lines)>> \o Join(Tail(lines))

\* a variant that already truncates a result of exactly the cap
truncate_result_below(result) ==
    IF result.size < max_output_size THEN result
    ELSE [truncated |-> TRUE, original_size_bytes |-> result.size,
          max_allowed_bytes |-> max_output_size]

\* json_str.len() is the size field of a result value
truncate_result(result) ==
    IF result.size <= max_output_size THEN result
    ELSE [truncated |-> TRUE, original_size_bytes |-> result.size,
          max_allowed_bytes |-> max_output_size]

FsErrors(tool) ==
    CASE tool = "FsRead" -> {"File not found"}
      [] tool = "FsSearch" -> {"Invalid regex"}
      [] tool = "FsWrite" -> {"File already exists and overwrite is false"}
      [] OTHER -> {}

\* ToolExecutor::execute_tool_with_result / execute_tool are entered
Dispatch(s, id, tool, args, legacy) ==
    [IdleDisp EXCEPT !.pc = "begin", !.id = id, !.tool = tool,
                     !.args = args, !.legacy = legacy]

\* the ToolBegin send; a failed send returns before the tool runs
DispatchBegin(s) ==
    /\ disp[s].pc = "begin"
    /\ bus' = Send(bus, ToolBegin(disp[s].id, disp[s].tool))
    /\ disp' = [disp EXCEPT ![s] =
          IF SendOk THEN [@ EXCEPT !.pc = "exec"]
          ELSE [@ EXCEPT !.pc = "done",
                         !.ret = Some(Err("Failed to send ToolBegin event"))]]
    /\ UNCHANGED <<load_result, fsread, validation, tui, history_file, disk, planner, messages, receiverAlive, agent, http>>

\* ok: result.is_ok() of the ToolEnd event
EndOk(result) == result.ok

DispatchEnd(s) ==
    /\ disp[s].pc = "end"
    /\ bus' = Send(bus, ToolEnd(disp[s].id, EndOk(disp[s].result[1])))
    /\ disp' = [disp EXCEPT ![s] =
          IF SendOk THEN [@ EXCEPT !.pc = "done", !.ret = disp[s].result]
          ELSE [@ EXCEPT !.pc = "done",
                         !.ret = Some(Err("Failed to send ToolEnd event"))]]
    /\ UNCHANGED <<load_result, fsread, validation, tui, history_file, disk, planner, messages, receiverAlive, agent, http>>

Returned(d, r) == [d EXCEPT !.pc = "end", !.result = Some(r)]

\* from_value(args)? and the first ToolProgress of an fs.* executor
FsStart(s) ==
    /\ disp[s].pc = "exec"
    /\ disp[s].tool \in FsTools \cup {"FsApplyPatch"}
    /\ IF disp[s].args # "valid"
       THEN /\ disp' = [disp EXCEPT ![s] = Returned(@, Err("Invalid arguments"))]
            /\ bus' = bus
       ELSE /\ disp' = [disp EXCEPT ![s].pc = "work"]
            /\ bus' = Send(bus, ToolProgress(disp[s].id))
    /\ UNCHANGED <<load_result, fsread, validation, tui, history_file, disk, planner, messages, receiverAlive, agent, http>>

\* the events an fs.* executor sends once its work has succeeded or failed
FsWorkEvents(id, failed, payload) ==
    IF failed THEN <<>> ELSE <<ToolResult(id, payload)>>

\* fs.read, fs.search, fs.write after the progress event
FsWork(s) ==
    /\ disp[s].pc = "work"
    /\ disp[s].tool \in FsTools
    /\ \/ \E e \in FsErrors(disp[s].tool) :
            /\ bus' = SendAll(bus, FsWorkEvents(disp[s].id, TRUE, e))
            /\ disp' = [disp EXCEPT ![s] = Returned(@, Err(e))]
       \/ \E n \in OutputSizes :
            LET result_value == [tool |-> disp[s].tool, size |-> n]
            IN  /\ bus' = SendAll(bus, FsWorkEvents(disp[s].id, FALSE, result_value))
                /\ disp' = [disp EXCEPT ![s] =
                      IF disp[s].legacy THEN Returned(@, Ok(Unit))
                      ELSE Returned(@, Ok(truncate_result(result_value)))]
    /\ UNCHANGED <<load_result, fsread, validation, tui, history_file, disk, planner, messages, receiverAlive, agent, http>>

\* fs.apply_patch: a second progress event, then the result whatever the
\* patch did (a failed patch is an Ok result with success = false)
FsApplyPatch(s) ==
    /\ disp[s].pc = "work"
    /\ disp[s].tool = "FsApplyPatch"
    /\ \E success \in BOOLEAN :
          LET result_value == [tool |-> "FsApplyPatch", size |-> max_output_size,
                               success |-> success]
          IN  /\ bus' = SendAll(bus, <<ToolProgress(disp[s].id),
                                       ToolResult(disp[s].id, result_value)>>)
              /\ disp' = [disp EXCEPT ![s] =
                    IF disp[s].legacy THEN Returned(@, Ok(Unit))
                    ELSE Returned(@, Ok(truncate_result(result_value)))]
    /\ UNCHANGED <<load_result, fsread, validation, tui, history_file, disk, planner, messages, receiverAlive, agent, http>>

(***************************************************************************)
(* large_context_fetch                                                     *)
(***************************************************************************)
\* from_value(args)? and the first progress event, whose failed send returns
LlmStart(s) ==
    /\ disp[s].pc = "exec"
    /\ disp[s].tool = "LargeContextFetch"
    /\ IF disp[s].args # "valid"
       THEN /\ disp' = [disp EXCEPT ![s] =
                  Returned(@, Err("Invalid LargeContextFetch arguments"))]
            /\ bus' = bus
       ELSE /\ bus' = Send(bus, ToolProgress(disp[s].id))
            /\ disp' = [disp EXCEPT ![s] =
                  IF SendOk THEN [@ EXCEPT !.pc = "work"]
                  ELSE Returned(@, Err("Failed to send progress event"))]
    /\ UNCHANGED <<load_result, fsread, validation, tui, history_file, disk, planner, messages, receiverAlive, agent, http>>

LlmErrors == {"Failed to make LLM request"}

\* the payload of the ToolResult event of large_context_fetch
LlmResultPayload(result_json) == truncate_result(result_json)

\* the value large_context_fetch returns
LlmReturnValue(result_json) == result_json

\* gather_code_files and the second progress event
LlmWork(s) ==
    /\ disp[s].pc = "work"
    /\ disp[s].tool = "LargeContextFetch"
    /\ \/ /\ disp' = [disp EXCEPT ![s] =
                  Returned(@, Err("No code files found to analyze"))]
          /\ bus' = bus
       \/ /\ bus' = Send(bus, ToolProgress(disp[s].id))
          /\ disp' = [disp EXCEPT ![s] =
                  IF SendOk THEN [@ EXCEPT !.pc = "analyze"]
                  ELSE Returned(@, Err("Failed to send progress event"))]
    /\ UNCHANGED <<load_result, fsread, validation, tui, history_file, disk, planner, messages, receiverAlive, agent, http>>

\* analyze_relevance_with_llm, the ToolResult event and the returned value
LlmFinish(s) ==
    /\ disp[s].pc = "analyze"
    /\ \/ \E e \in LlmErrors :
             /\ disp' = [disp EXCEPT ![s] = Returned(@, Err(e))]
             /\ bus' = bus
       \/ \E n \in OutputSizes :
             LET result_json == [tool |-> "LargeContextFetch", size |-> n]
             IN  /\ bus' = Send(bus, ToolResult(disp[s].id, LlmResultPayload(result_json)))
                 /\ disp' = [disp EXCEPT ![s] =
                       IF ~SendOk THEN Returned(@, Err("Failed to send result event"))
                       ELSE IF disp[s].legacy THEN Returned(@, Ok(Unit))
                       ELSE Returned(@, Ok(LlmReturnValue(result_json)))]
    /\ UNCHANGED <<load_result, fsread, validation, tui, history_file, disk, planner, messages, receiverAlive, agent, http>>

(***************************************************************************)
(* shell.exec: the child process, its two pipes and the two reader tasks   *)
(***************************************************************************)
\* parsing, the empty-command check and the progress event
ShellStart(s) ==
    /\ disp[s].pc = "exec"
    /\ disp[s].tool = "ShellExec"
    /\ CASE disp[s].args = "mistyped" ->
              /\ disp' = [disp EXCEPT ![s] = Returned(@, Err("Invalid ShellExec arguments"))]
              /\ bus' = bus
         [] disp[s].args = "empty_command" ->
              /\ disp' = [disp EXCEPT ![s] = Returned(@, Err("Empty command"))]
              /\ bus' = bus
         [] OTHER ->
              /\ disp' = [disp EXCEPT ![s].pc = "spawn"]
              /\ bus' = Send(bus, ToolProgress(disp[s].id))
    /\ UNCHANGED <<load_result, fsread, validation, tui, history_file, disk, planner, messages, receiverAlive, agent, http>>

\* command.spawn() and the two tokio::spawn calls
ShellSpawn(s) ==
    /\ disp[s].pc = "spawn"
    /\ \/ disp' = [disp EXCEPT ![s] = Returned(@, Err("Failed to spawn command"))]
       \/ \E script \in Scripts, code \in {0, 1} :
            disp' = [disp EXCEPT ![s].pc = "wait",
                        ![s].child = [NoChild EXCEPT !.state = "running",
                                        !.script = script, !.exit_code = code],
                        ![s].stdout_task = [st |-> "running", lines |-> <<>>],
                        ![s].stderr_task = [st |-> "running", lines |-> <<>>]]
    /\ UNCHANGED <<load_result, fsread, validation, tui, history_file, disk, planner, messages, bus, receiverAlive, agent, http>>

\* the child writes its next line to one of its pipes
ChildWrite(s) ==
    LET c == disp[s].child
        n == c.written + 1
    IN  /\ c.state = "running"
        /\ n <= Len(c.script)
        /\ disp' = [disp EXCEPT ![s].child =
              IF c.script[n] = "out"
              THEN [c EXCEPT !.written = n, !.pipe_out = Append(@, n)]
              ELSE [c EXCEPT !.written = n, !.pipe_err = Append(@, n)]]
        /\ UNCHANGED <<load_result, fsread, validation, tui, history_file, disk, planner, messages, bus, receiverAlive, agent, http>>

\* the child exits by itself; its ends of the pipes are closed
ChildExit(s) ==
    /\ disp[s].child.state = "running"
    /\ disp[s].child.written = Len(disp[s].child.script)
    /\ disp' = [disp EXCEPT ![s].child.state = "exited"]
    /\ UNCHANGED <<load_result, fsread, validation, tui, history_file, disk, planner, messages, bus, receiverAlive, agent, http>>

PipeClosed(c) == c.state \in {"exited", "killed"}

\* one iteration of `while let Ok(Some(line)) = stdout_reader.next_line().await`.
\* A task whose abort has been requested while it is being polled keeps
\* running until its next yield point (JoinHandle::abort only schedules the
\* cancellation), so it may still send chunks for lines that are ready.
StdoutTaskLine(s) ==
    LET c == disp[s].child
        t == disp[s].stdout_task
    IN  /\ t.st \in {"running", "cancelling"}
        /\ c.pipe_out # <<>>
        /\ bus' = Send(bus, ToolStdout(disp[s].id, Chunk(Head(c.pipe_out))))
        /\ disp' = [disp EXCEPT ![s].child.pipe_out = Tail(@),
                                ![s].stdout_task.lines = Append(@, Chunk(Head(c.pipe_out)))]
        /\ UNCHANGED <<load_result, fsread, validation, tui, history_file, disk, planner, messages, receiverAlive, agent, http>>

StderrTaskLine(s) ==
    LET c == disp[s].child
        t == disp[s].stderr_task
    IN  /\ t.st \in {"running", "cancelling"}
        /\ c.pipe_err # <<>>
        /\ bus' = Send(bus, ToolStderr(disp[s].id, Chunk(Head(c.pipe_err))))
        /\ disp' = [disp EXCEPT ![s].child.pipe_err = Tail(@),
                                ![s].stderr_task.lines = Append(@, Chunk(Head(c.pipe_err)))]
        /\ UNCHANGED <<load_result, fsread, validation, tui, history_file, disk, planner, messages, receiverAlive, agent, http>>

\* next_line() returns Ok(None) at end of file: the task returns its lines
StdoutTaskEof(s) ==
    /\ disp[s].stdout_task.st = "running"
    /\ disp[s].child.pipe_out = <<>>
    /\ PipeClosed(disp[s].child)
    /\ disp' = [disp EXCEPT ![s].stdout_task.st = "finished"]
    /\ UNCHANGED <<load_result, fsread, validation, tui, history_file, disk, planner, messages, bus, receiverAlive, agent, http>>

StderrTaskEof(s) ==
    /\ disp[s].stderr_task.st = "running"
    /\ disp[s].child.pipe_err = <<>>
    /\ PipeClosed(disp[s].child)
    /\ disp' = [disp EXCEPT ![s].stderr_task.st = "finished"]
    /\ UNCHANGED <<load_result, fsread, validation, tui, history_file, disk, planner, messages, bus, receiverAlive, agent, http>>

\* an aborted task is dropped at its next yield point
TaskCancelled(s) ==
    /\ \/ disp[s].stdout_task.st = "cancelling"
       \/ disp[s].stderr_task.st = "cancelling"
    /\ disp' = [disp EXCEPT
          ![s].stdout_task.st = IF @ = "cancelling" THEN "cancelled" ELSE @,
          ![s].stderr_task.st = IF @ = "cancelling" THEN "cancelled" ELSE @]
    /\ UNCHANGED <<load_result, fsread, validation, tui, history_file, disk, planner, messages, bus, receiverAlive, agent, http>>

\* timeout(timeout_duration, child.wait()).await
ShellWait(s) ==
    /\ disp[s].pc = "wait"
    /\ \E w \in {"exited", "timeout", "wait_error"} :
          /\ w = "exited" => disp[s].child.state = "exited"
          /\ w = "timeout" => disp[s].child.state = "running"
          /\ disp' = [disp EXCEPT ![s].wait_result = w,
                         ![s].pc = IF disp[s].legacy THEN "abort" ELSE "join_stdout"]
    /\ UNCHANGED <<load_result, fsread, validation, tui, history_file, disk, planner, messages, bus, receiverAlive, agent, http>>

\* execute_with_result: stdout_task.await, then stderr_task.await
ShellJoinStdout(s) ==
    /\ disp[s].pc = "join_stdout"
    /\ disp[s].stdout_task.st = "finished"
    /\ disp' = [disp EXCEPT ![s].pc = "join_stderr"]
    /\ UNCHANGED <<load_result, fsread, validation, tui, history_file, disk, planner, messages, bus, receiverAlive, agent, http>>

ShellJoinStderr(s) ==
    /\ disp[s].pc = "join_stderr"
    /\ disp[s].stderr_task.st = "finished"
    /\ disp' = [disp EXCEPT ![s].pc = "match"]
    /\ UNCHANGED <<load_result, fsread, validation, tui, history_file, disk, planner, messages, bus, receiverAlive, agent, http>>

Abort(t) == IF t.st = "running" THEN [t EXCEPT !.st = "cancelling"] ELSE t

\* execute (legacy): stdout_task.abort(); stderr_task.abort()
ShellAbort(s) ==
    /\ disp[s].pc = "abort"
    /\ disp' = [disp EXCEPT ![s].pc = "match",
                            ![s].stdout_task = Abort(@),
                            ![s].stderr_task = Abort(@)]
    /\ UNCHANGED <<load_result, fsread, validation, tui, history_file, disk, planner, messages, bus, receiverAlive, agent, http>>

\* the events shell.exec sends once the child has exited with exit_code
ShellExitEventsNone(id, exit_code, payload) ==
    IF exit_code # 0 THEN <<>> ELSE <<ToolResult(id, payload)>>

ShellExitEvents(id, exit_code, payload) == <<ToolResult(id, payload)>>

\* Err(format!("Command failed with exit code: {}", exit_code))
ExitCodeErr(exit_code) ==
    [ok |-> FALSE, val |-> [error |-> "Command failed with exit code", code |-> exit_code]]

\* a variant that reports a non-zero exit as success
exit_result_lenient(exit_code, value) == Ok(value)

\* `if exit_code != 0 { return Err(..) }` and the final Ok(..)
exit_result(exit_code, value) ==
    IF exit_code # 0 THEN ExitCodeErr(exit_code) ELSE Ok(value)

\* a variant whose match never takes the timeout arm
timed_out_never(wait_result) == FALSE

\* the `Err(_)` arm of `match wait_result`: the timeout has elapsed
timed_out(wait_result) == wait_result = "timeout"

\* `match wait_result` and the rest of the executor
ShellFinish(s) ==
    \E n \in OutputSizes :
    LET d == disp[s]
        result_value == [tool |-> "ShellExec", size |-> n,
                         exit_code |-> d.child.exit_code,
                         stdout |-> Join(d.stdout_task.lines),
                         stderr |-> Join(d.stderr_task.lines)]
        legacy_value == [tool |-> "ShellExec", size |-> n,
                         exit_code |-> d.child.exit_code]
        payload == IF d.legacy THEN legacy_value ELSE result_value
    IN  /\ d.pc = "match"
        /\ CASE d.wait_result = "wait_error" ->
                  /\ disp' = [disp EXCEPT ![s] = Returned(@, Err("Process wait error"))]
                  /\ bus' = bus
             [] timed_out(d.wait_result) ->
                  /\ disp' = [disp EXCEPT ![s] =
                        Returned([@ EXCEPT !.child.state =
                                     IF @ = "running" THEN "killed" ELSE @],
                                 Err("Command timed out"))]
                  /\ bus' = bus
             [] OTHER ->
                  /\ bus' = SendAll(bus, ShellExitEvents(d.id, d.child.exit_code, payload))
                  /\ disp' = [disp EXCEPT ![s] =
                        IF d.legacy /\ ~SendOk
                        THEN Returned(@, Err("Failed to send ToolResult"))
                        ELSE Returned(@, exit_result(d.child.exit_code,
                                 IF d.legacy THEN Unit
                                 ELSE truncate_result(result_value)))]
        /\ UNCHANGED <<load_result, fsread, validation, tui, history_file, disk, planner, messages, receiverAlive, agent, http>>

DispatcherStep(s) ==
    \/ DispatchBegin(s) \/ DispatchEnd(s)
    \/ FsStart(s) \/ FsWork(s) \/ FsApplyPatch(s)
    \/ LlmStart(s) \/ LlmWork(s) \/ LlmFinish(s)
    \/ ShellStart(s) \/ ShellSpawn(s) \/ ShellWait(s)
    \/ ShellJoinStdout(s) \/ ShellJoinStderr(s) \/ ShellAbort(s) \/ ShellFinish(s)

ProcessStep(s) ==
    \/ ChildWrite(s) \/ ChildExit(s)
    \/ StdoutTaskLine(s) \/ StderrTaskLine(s)
    \/ StdoutTaskEof(s) \/ StderrTaskEof(s) \/ TaskCancelled(s)

(***************************************************************************)
(* MultiModelAgent: request messages, provider responses, http_post        *)
(***************************************************************************)
Text(t) == [text |-> t]
\* serde_json::to_string(&v)
ToJsonString(v) == [json |-> v]

ReqMessage(role, content, tool_calls, tool_call_id) ==
    [role |-> role, content |-> content,
     tool_calls |-> tool_calls, tool_call_id |-> tool_call_id]

ToolCall(id, name, arguments) == [id |-> id, name |-> name, arguments |-> arguments]

\* the tool calls a provider may put in a response
CallSet ==
    { ToolCall("a", "fs.read", "valid"),
      ToolCall("b", "fs.read", "mistyped"),
      ToolCall("b", "fs.read", "not_json"),
      ToolCall("a", "bogus", "valid"),
      ToolCall("b", "fs.set_file", "valid") }

CallLists == UNION {[1..n -> CallSet] : n \in 0..MaxCalls}

\* ChatCompletionResponse values, reduced to what submit reads
Responses ==
    { [kind |-> "no_choices", calls |-> <<>>, content |-> None, usage |-> FALSE],
      [kind |-> "no_message", calls |-> <<>>, content |-> None, usage |-> FALSE],
      [kind |-> "empty", calls |-> <<>>, content |-> None, usage |-> FALSE] }
    \cup { [kind |-> "content", calls |-> <<>>, content |-> Some(Text("done")), usage |-> u] :
              u \in BOOLEAN }
    \cup { [kind |-> "tool_calls", calls |-> l, content |-> None, usage |-> FALSE] :
              l \in CallLists }

ModelConfigs == <<"A", "B">>

tool_name_from_string(name) ==
    CASE name = "fs.read" -> Some("FsRead")
      [] name = "fs.search" -> Some("FsSearch")
      [] name = "fs.write" -> Some("FsWrite")
      [] name = "fs.apply_patch" -> Some("FsApplyPatch")
      [] name = "fs.set_file" -> Some("FsSetFile")
      [] name = "fs.replace_once" -> Some("FsReplaceOnce")
      [] name = "fs.insert_before" -> Some("FsInsertBefore")
      [] name = "fs.insert_after" -> Some("FsInsertAfter")
      [] name = "fs.delete_file" -> Some("FsDeleteFile")
      [] name = "fs.rename_file" -> Some("FsRenameFile")
      [] name = "fs.find" -> Some("FsFind")
      [] name = "shell.exec" -> Some("ShellExec")
      [] name = "code.symbols" -> Some("CodeSymbols")
      [] name = "large_context_fetch" -> Some("LargeContextFetch")
      [] OTHER -> None

\* serde_json::from_str(&call.function.arguments)
ParseArguments(arguments) ==
    IF arguments = "not_json" THEN Err("invalid tool args") ELSE Ok([args |-> arguments])

\* the "required" array of each tool's input_schema
required(tool) ==
    CASE tool = "FsRead" -> <<"path">>
      [] tool = "FsSearch" -> <<"query">>
      [] tool = "FsWrite" -> <<"path", "contents">>
      [] tool = "FsApplyPatch" -> <<"unified_diff">>
      [] tool = "ShellExec" -> <<"command">>
      [] tool = "LargeContextFetch" -> <<"user_query">>
      [] tool = "FsFind" -> <<"pattern">>
      [] tool = "FsReadAllCode" -> <<>>
      [] tool = "CodeSymbols" -> <<"path">>

\* the tools register_builtin_tools puts in the registry
Registered ==
    {"FsRead", "FsSearch", "FsWrite", "FsApplyPatch", "FsFind", "FsReadAllCode",
     "CodeSymbols", "ShellExec", "LargeContextFetch"}

\* ToolRegistry::get_spec(tool).is_some()
has_spec(tool) == tool \in Registered

\* serde_json::Value arguments: a non-object, or an object that gives each
\* key no value ("absent") or a value of some JSON type
ArgKeys == {"path", "contents", "command"}
JsonTypes == {"string", "number"}
NonObjects == {[kind |-> k, fields |-> <<>>] : k \in {"string", "null", "array"}}
Objects == {[kind |-> "object", fields |-> f] : f \in [ArgKeys -> JsonTypes \cup {"absent"}]}

\* obj.contains_key(field_name)
contains_key(v, key) == key \in DOMAIN v.fields /\ v.fields[key] # "absent"

ValidationError(msg, field) == Err([msg |-> msg, field |-> field])

\* a variant that also wants every required value to be a string
validate_args_typed(tool, v) ==
    IF ~has_spec(tool) THEN ValidationError("Unknown tool", tool)
    ELSE IF v.kind # "object" THEN ValidationError("Arguments must be an object", "")
    ELSE LET bad == {i \in 1..Len(required(tool)) :
                        ~contains_key(v, required(tool)[i])
                        \/ v.fields[required(tool)[i]] # "string"}
         IN  IF bad = {} THEN Ok(Unit)
             ELSE ValidationError("Missing required field",
                      required(tool)[CHOOSE i \in bad : \A j \in bad : i <= j])

\* ToolRegistry::validate_args: the first required key that is missing
validate_args(tool, v) ==
    IF ~has_spec(tool) THEN ValidationError("Unknown tool", tool)
    ELSE IF v.kind # "object" THEN ValidationError("Arguments must be an object", "")
    ELSE LET missing == {i \in 1..Len(required(tool)) :
                            ~contains_key(v, required(tool)[i])}
         IN  IF missing = {} THEN Ok(Unit)
             ELSE ValidationError("Missing required field",
                      required(tool)[CHOOSE i \in missing : \A j \in missing : i <= j])

\* the JSON value that a class of call arguments stands for
ArgValue(tool, class) ==
    [kind |-> "object",
     fields |-> [k \in {required(tool)[i] : i \in 1..Len(required(tool))} |->
                    CASE class = "missing_required" -> "absent"
                      [] class = "mistyped" -> "number"
                      [] OTHER -> "string"]]

(***************************************************************************)
(* fs.read: the range handling of execute_read_with_result.  A String is   *)
(* its UTF-8 bytes: "a" is a one-byte character, "L" and "C" are the lead  *)
(* and the continuation byte of a two-byte character.                      *)
(***************************************************************************)
MaxFileLen == 3

Bytes == {"a", "L", "C"}

\* the byte sequences that are valid UTF-8
is_utf8(text) ==
    \A i \in 1..Len(text) :
        /\ text[i] = "L" => (i < Len(text) /\ text[i + 1] = "C")
        /\ text[i] = "C" => (i > 1 /\ text[i - 1] = "L")

\* the contents from_utf8_lossy can give for the files that are read
ReadTexts == {text \in UNION {[1..n -> Bytes] : n \in 0..MaxFileLen} : is_utf8(text)}

\* Range<u64> values, with offsets up to one past the longest file
Offsets == 0..(MaxFileLen + 1)

\* str::is_char_boundary
is_char_boundary(text, index) ==
    \/ index = 0
    \/ index = Len(text)
    \/ index < Len(text) /\ text[index + 1] # "C"

\* the thread panics: no value is returned
Panic == [panic |-> TRUE, contents |-> <<>>, truncated |-> FALSE]

\* text[start..end].to_string(): str indexing panics when start > end, when
\* end > len, or when an end of the range is not on a character boundary
slice(text, start, end) ==
    IF /\ start <= end /\ end <= Len(text)
       /\ is_char_boundary(text, start) /\ is_char_boundary(text, end)
    THEN [panic |-> FALSE, contents |-> SubSeq(text, start + 1, end)]
    ELSE [panic |-> TRUE, contents |-> <<>>]

Min(a, b) == IF a < b THEN a ELSE b

\* `if let Some(range) = args.range { .. }`: (final_contents, truncated)
read_range(text_contents, start, end) ==
    IF start < Len(text_contents)
    THEN LET end_clamped == Min(end, Len(text_contents))
             s == slice(text_contents, start, end_clamped)
         IN  IF s.panic THEN Panic
             ELSE [panic |-> FALSE, contents |-> s.contents,
                   truncated |-> end < Len(text_contents)]
    ELSE [panic |-> FALSE, contents |-> <<>>, truncated |-> FALSE]

NoRead == [text |-> <<>>, start |-> 0, end |-> 0, outcome |-> None]

\* execute_read_with_result reaches the range handling
FsReadRange ==
    /\ fsread.outcome = None
    /\ fsread' = [fsread EXCEPT
          !.outcome = Some(read_range(fsread.text, fsread.start, fsread.end))]
    /\ UNCHANGED <<messages, bus, receiverAlive, disp, agent, http, disk, planner,
                   history_file, tui, validation, load_result>>

NoValidation == [tool |-> "", args |-> [kind |-> "null", fields |-> <<>>], result |-> None]

\* a caller hands a tool and a value to validate_args
ValidateArgs ==
    /\ validation.result = None
    /\ validation.tool # ""
    /\ validation' = [validation EXCEPT
          !.result = Some(validate_args(validation.tool, validation.args))]
    /\ UNCHANGED <<messages, bus, receiverAlive, disp, agent, http, disk, planner,
                   history_file, tui, fsread, load_result>>

convert_message(m) ==
    LET role == CASE m.role = "User" -> "user"
                  [] m.role = "Agent" -> "assistant"
                  [] m.role = "System" -> "system"
                  [] m.role = "Error" -> "system"
                  [] m.role = "Tool" -> "tool"
        content == CASE m.role = "Error" -> [error_text |-> m.content]
                     [] m.role = "Tool" /\ m.tool_info # None ->
                          ToJsonString([stdout |-> m.tool_info[1].stdout,
                                        stderr |-> m.tool_info[1].stderr])
                     [] OTHER -> Text(m.content)
    IN  IF m.role = "Tool" /\ m.tool_info # None
        THEN ReqMessage(role, Some(content), None, Some(m.tool_info[1].id))
        ELSE ReqMessage(role, Some(content), None, None)

convert_history(history) == [k \in 1..Len(history) |-> convert_message(history[k])]

\* the request array is recorded up to MaxReq entries
MaxReq == 4 + MaxTurns * (1 + MaxCalls)

PushReq(msgs, m) ==
    IF agent.recording /\ Len(msgs) < MaxReq THEN Append(msgs, m) ELSE msgs

IdleAgent ==
    [pc |-> "idle", input |-> "", history |-> <<>>, messages |-> <<>>,
     turns |-> 0, calls |-> <<>>, k |-> 0, final_text |-> "",
     token_usage |-> FALSE, resp |-> None, result |-> None,
     outcomes |-> <<>>, sent |-> 0, recording |-> TRUE, thinking |-> FALSE]

IdleHttp == [i |-> 0, last_error |-> None, tries |-> <<>>]

Inputs == {"hello"}

AgentError(kind, msg) == [kind |-> kind, msg |-> msg]

\* Session::handle_user_input: the user message is appended, the history is
\* cloned and the background task is spawned
HandleUserInput ==
    /\ agent.pc = "idle"
    /\ \E text \in Inputs :
          /\ messages' = add_user_message(messages, text)
          /\ agent' = [IdleAgent EXCEPT !.pc = "spawned", !.input = text,
                                        !.history = messages']
    /\ UNCHANGED <<load_result, fsread, validation, bus, receiverAlive, disp, http, disk, planner, history_file, tui>>

\* submit: system prompt, converted history, current user message
SeedMessages(history, message) ==
    <<ReqMessage("system", Some(Text("system_prompt")), None, None)>>
        \o convert_history(history)
        \o <<ReqMessage("user", Some(Text(message)), None, None)>>

AgentSeed ==
    /\ agent.pc = "spawned"
    /\ agent' = [agent EXCEPT !.pc = "turn",
                              !.messages = SeedMessages(agent.history, agent.input)]
    /\ UNCHANGED <<load_result, fsread, validation, tui, history_file, disk, planner, messages, bus, receiverAlive, disp, http>>

\* top of the loop: turns += 1, ChatCreated on the first turn, http_post is
\* entered.  Only `turns == 1` is ever read, so the counter stops at
\* MaxTurns + 1.
AgentTurn ==
    /\ agent.pc = "turn"
    /\ LET t == IF agent.turns <= MaxTurns THEN agent.turns + 1 ELSE agent.turns
       IN  /\ agent' = [agent EXCEPT !.pc = "post", !.turns = t]
           /\ bus' = IF t = 1 THEN Send(bus, PlainEvent("ChatCreated")) ELSE bus
    /\ http' = [i |-> 1, last_error |-> None, tries |-> <<>>]
    /\ UNCHANGED <<load_result, fsread, validation, tui, history_file, disk, planner, messages, receiverAlive, disp>>

\* the events http_post sends when a provider fails
FailureEventsQuiet(name, outcome) == <<>>

FailureEvents(name, outcome) ==
    CASE outcome = "transport" ->
            <<ErrorEvent([about |-> name, text |-> "Failed to connect, trying next provider"])>>
      [] outcome = "status" ->
            <<ErrorEvent([about |-> name, text |-> "returned status, trying next provider"])>>
      [] OTHER -> <<>>

FailureText(outcome) ==
    CASE outcome = "transport" -> "request error"
      [] outcome = "status" -> "HTTP"
      [] OTHER -> "decode error"

\* a variant that keeps the error of the first provider that failed
keep_first_error(last_error, error_msg) ==
    IF last_error = None THEN Some(error_msg) ELSE last_error

\* last_error = Some(error_msg)
set_last_error(last_error, error_msg) == Some(error_msg)

\* tool calls the provider has asked for so far in this submission
RECURSIVE CallsSoFar(_)
CallsSoFar(msgs) ==
    IF msgs = <<>> THEN 0
    ELSE CallsSoFar(Tail(msgs)) +
         (IF Head(msgs).tool_calls = None THEN 0 ELSE Len(Head(msgs).tool_calls[1]))

\* the turns whose tool calls are recorded
Window(bounded) == IF bounded THEN MaxTurns ELSE 0

\* one iteration of the loop over model_configs: the request is sent to
\* config i and its outcome is handled.  When bounded, the provider asks for
\* tools only in the first MaxTurns turns and for MaxCalls calls in all;
\* otherwise it may ask for tools in every turn, and the logs stop at the
\* first such turn beyond the window.
HttpTry(bounded) ==
    /\ agent.pc = "post"
    /\ http.i <= Len(ModelConfigs)
    /\ LET name == ModelConfigs[http.i]
           try(o, r) == [name |-> name, outcome |-> o, at |-> Len(bus), body |-> r]
       IN  \/ \E o \in {"transport", "status", "decode"} :
                /\ bus' = SendAll(bus, FailureEvents(name, o))
                /\ http' = [http EXCEPT !.i = @ + 1,
                               !.last_error = set_last_error(@, [name |-> name, text |-> FailureText(o)]),
                               !.tries = Append(@, try(o, None))]
                /\ agent' = agent
           \/ \E r \in Responses :
                /\ bounded /\ r.kind = "tool_calls" =>
                      /\ agent.turns <= MaxTurns
                      /\ CallsSoFar(agent.messages) + Len(r.calls) <= MaxCalls
                /\ bus' = IF http.i > 1
                          THEN Send(bus, ErrorEvent([about |-> name,
                                                     text |-> "Successfully using",
                                                     failed |-> http.i - 1]))
                          ELSE bus
                /\ http' = [http EXCEPT !.tries = Append(@, try("ok", Some(r)))]
                /\ agent' = [agent EXCEPT !.pc = "resp",
                                !.resp = Some([from |-> name, body |-> r]),
                                !.recording = @ /\ (r.kind = "tool_calls" =>
                                                      agent.turns <= Window(bounded))]
    /\ UNCHANGED <<load_result, fsread, validation, tui, history_file, disk, planner, messages, receiverAlive, disp>>

\* every config has failed: Err(Network(last_error)), which `?` returns
HttpExhausted ==
    /\ agent.pc = "post"
    /\ http.i > Len(ModelConfigs)
    /\ LET e == IF http.last_error = None
                THEN [name |-> "", text |-> "All model providers failed"]
                ELSE http.last_error[1]
       IN  agent' = [agent EXCEPT !.pc = "returned",
                                  !.result = Some(Err(AgentError("Network", e)))]
    /\ UNCHANGED <<load_result, fsread, validation, tui, history_file, disk, planner, messages, bus, receiverAlive, disp, http>>

\* a variant that forgets the assistant message
PushAssistantNothing(msgs, content, tool_calls) == msgs

\* messages.push({role: assistant, content, tool_calls})
PushAssistantToolCalls(msgs, content, tool_calls) ==
    PushReq(msgs, ReqMessage("assistant", content, Some(tool_calls), None))

\* the response is inspected: usage, choices, tool calls or final content
AgentResponse ==
    /\ agent.pc = "resp"
    /\ LET r == agent.resp[1].body
           a == [agent EXCEPT !.token_usage = @ \/ r.usage]
       IN  agent' =
             CASE r.kind = "no_choices" ->
                    [a EXCEPT !.pc = "returned",
                        !.result = Some(Err(AgentError("Processing", "no choices")))]
               [] r.kind = "tool_calls" ->
                    [a EXCEPT !.pc = "calls", !.calls = r.calls, !.k = 1,
                        !.messages = PushAssistantToolCalls(@, r.content, r.calls)]
               [] r.kind = "content" ->
                    [a EXCEPT !.pc = "complete", !.final_text = r.content[1].text,
                        !.messages = PushReq(@, ReqMessage("assistant", r.content, None, None))]
               [] OTHER -> [a EXCEPT !.pc = "complete"]
    /\ UNCHANGED <<load_result, fsread, validation, tui, history_file, disk, planner, messages, bus, receiverAlive, disp, http>>

\* what submit does with the dispatcher's result: the error as a raw value
tool_result_raw(ret, tool, args) == ret.val

\* Ok(result) => result, Err(e) => json!({error, tool, args})
tool_result_json(ret, tool, args) ==
    IF ret.ok THEN ret.val
    ELSE [error |-> ret.val.error, tool |-> tool, args |-> args]

\* `for call in tool_calls`: name lookup, argument parsing, validation and
\* the call of execute_tool_with_result; after the last call, `continue`
AgentNextCall ==
    /\ agent.pc = "calls"
    /\ IF agent.k > Len(agent.calls)
       THEN /\ agent' = [agent EXCEPT !.pc = "turn"]
            /\ UNCHANGED <<bus, disp>>
       ELSE LET call == agent.calls[agent.k]
                tool_name == tool_name_from_string(call.name)
                args == ParseArguments(call.arguments)
            IN  CASE tool_name = None ->
                       /\ agent' = [agent EXCEPT !.pc = "returned",
                             !.result = Some(Err(AgentError("Processing", "unknown tool")))]
                       /\ UNCHANGED <<bus, disp>>
                  [] tool_name # None /\ ~args.ok ->
                       /\ agent' = [agent EXCEPT !.pc = "returned",
                             !.result = Some(Err(AgentError("Processing", "invalid tool args")))]
                       /\ UNCHANGED <<bus, disp>>
                  [] tool_name # None /\ args.ok
                        /\ ~validate_args(tool_name[1],
                               ArgValue(tool_name[1], args.val.args)).ok ->
                       /\ bus' = Send(bus, ErrorEvent([about |-> "",
                                          text |-> "tool args validation failed"]))
                       /\ agent' = [agent EXCEPT !.k = @ + 1]
                       /\ UNCHANGED disp
                  [] OTHER ->
                       /\ disp[1].pc = "idle"
                       /\ disp' = [disp EXCEPT ![1] =
                             Dispatch(1, call.id, tool_name[1], args.val.args, FALSE)]
                       /\ agent' = [agent EXCEPT !.pc = "in_tool"]
                       /\ UNCHANGED bus
    /\ UNCHANGED <<load_result, fsread, validation, tui, history_file, disk, planner, messages, receiverAlive, http>>

\* execute_tool_with_result has returned: the role=tool message is appended
AgentToolDone ==
    /\ agent.pc = "in_tool"
    /\ disp[1].pc = "done"
    /\ LET call == agent.calls[agent.k]
           ret == disp[1].ret[1]
           tool_result == tool_result_json(ret, disp[1].tool, disp[1].args)
       IN  agent' = [agent EXCEPT !.pc = "calls", !.k = @ + 1,
                 !.messages = PushReq(@, ReqMessage("tool",
                                  Some(ToJsonString(tool_result)), None, Some(call.id))),
                 !.outcomes = IF agent.recording
                              THEN Append(@, [call |-> call, ret |-> ret]) ELSE @]
    /\ disp' = [disp EXCEPT ![1] = IdleDisp]
    /\ UNCHANGED <<load_result, fsread, validation, tui, history_file, disk, planner, messages, bus, receiverAlive, http>>

\* after the loop: ChatCompleted, TokenCount, Ok(AgentResponse)
completion_events_none(token_usage) == <<>>

\* "Emit completion": ChatCompleted, then TokenCount if usage was reported
completion_events(token_usage) ==
    <<ResultEvent("ChatCompleted", token_usage)>>
        \o (IF token_usage THEN <<PlainEvent("TokenCount")>> ELSE <<>>)

AgentComplete ==
    /\ agent.pc = "complete"
    /\ bus' = SendAll(bus, completion_events(agent.token_usage))
    /\ agent' = [agent EXCEPT !.pc = "returned",
                              !.result = Some(Ok([content |-> agent.final_text]))]
    /\ UNCHANGED <<load_result, fsread, validation, tui, history_file, disk, planner, messages, receiverAlive, disp, http>>

\* a task that reports both an answer and an error
TerminalEventsBoth(result) ==
    <<ResultEvent("AgentResponse", result.val), ResultEvent("AgentError", result.val)>>

\* match agent.submit(..).await { Ok => send_agent_response, Err => send_agent_error }
TerminalEvents(result) ==
    IF result.ok THEN <<ResultEvent("AgentResponse", result.val)>>
    ELSE <<ResultEvent("AgentError", result.val)>>

AgentSendTerminal ==
    /\ agent.pc = "returned"
    /\ bus' = SendAll(bus, TerminalEvents(agent.result[1]))
    /\ agent' = [agent EXCEPT !.pc = "finished", !.sent = @ + Len(TerminalEvents(agent.result[1]))]
    /\ UNCHANGED <<load_result, fsread, validation, tui, history_file, disk, planner, messages, receiverAlive, disp, http>>

AgentStep(bounded) ==
    \/ HandleUserInput \/ AgentSeed \/ AgentTurn
    \/ HttpTry(bounded) \/ HttpExhausted
    \/ AgentResponse \/ AgentNextCall \/ AgentToolDone
    \/ AgentComplete \/ AgentSendTerminal

(***************************************************************************)
(* SimpleEditPlanner: strings, the plan and apply_op                       *)
(***************************************************************************)
MaxOps == 2

Paths == {"p", "q"}
\* BTreeMap iteration order of the paths
PathOrder == <<"p", "q">>

\* strings are sequences of one-byte characters: a letter, '\r' and '\n'
FileTexts == { <<"a", "a", "a">>, <<"a", "cr", "lf">> }
NewTexts == { <<"a">>, <<"cr">> }
Needles == { <<>>, <<"a">>, <<"a", "a">>, <<"cr", "lf">> }

EditKinds == {"ReplaceOnce", "InsertBefore", "InsertAfter"}

SimpleEditOp(op, path, to, text, with) ==
    [op |-> op, path |-> path, to |-> to, text |-> text, with |-> with]

Ops ==
    { SimpleEditOp("SetFile", p, p, c, <<>>) : p \in Paths, c \in NewTexts }
    \cup { SimpleEditOp(k, p, p, n, w) :
              k \in EditKinds, p \in Paths, n \in Needles, w \in {<<"a">>} }
    \cup { SimpleEditOp("DeleteFile", p, p, <<>>, <<>>) : p \in Paths }
    \cup { SimpleEditOp("RenameFile", p, t, <<>>, <<>>) : p \in Paths, t \in Paths }

\* text.replace("\r\n", "\n").replace('\r', "\n")
RECURSIVE normalize_newlines(_)
normalize_newlines(text) ==
    IF text = <<>> THEN <<>>
    ELSE IF Head(text) = "cr"
         THEN IF Len(text) > 1 /\ text[2] = "lf"
              THEN <<"lf">> \o normalize_newlines(Tail(Tail(text)))
              ELSE <<"lf">> \o normalize_newlines(Tail(text))
         ELSE <<Head(text)>> \o normalize_newlines(Tail(text))

\* needle occurs in haystack at byte offset i
MatchesAt(haystack, needle, i) ==
    /\ i + Len(needle) <= Len(haystack)
    /\ SubSeq(haystack, i + 1, i + Len(needle)) = needle

\* a variant of the search that reports overlapping matches too
RECURSIVE match_indices_overlapping(_, _, _)
match_indices_overlapping(haystack, needle, from) ==
    IF from > Len(haystack) THEN <<>>
    ELSE IF MatchesAt(haystack, needle, from)
         THEN <<from>> \o match_indices_overlapping(haystack, needle, from + 1)
         ELSE match_indices_overlapping(haystack, needle, from + 1)

\* str::match_indices: the matches from left to right, each search resuming
\* at the end of the previous match (one position on for an empty needle)
RECURSIVE match_indices(_, _, _)
match_indices(haystack, needle, from) ==
    IF from > Len(haystack) THEN <<>>
    ELSE IF MatchesAt(haystack, needle, from)
         THEN <<from>> \o match_indices(haystack, needle,
                              from + (IF needle = <<>> THEN 1 ELSE Len(needle)))
         ELSE match_indices(haystack, needle, from + 1)

exactly_once(haystack, needle) ==
    LET matches == match_indices(haystack, needle, 0)
    IN  IF matches = <<>> THEN Err("anchor not found")
        ELSE IF Len(matches) > 1 THEN Err("anchor ambiguous (found >1)")
        ELSE Ok(matches[1])

\* String::replace_range(idx..idx + len, replacement)
replace_range(s, idx, len, replacement) ==
    SubSeq(s, 1, idx) \o replacement \o SubSeq(s, idx + len + 1, Len(s))

\* String::insert_str(idx, insertion)
insert_str(s, idx, insertion) ==
    SubSeq(s, 1, idx) \o insertion \o SubSeq(s, idx + 1, Len(s))

existing(content) == [original |-> Some(content), current |-> Some(content)]
new_missing == [original |-> None, current |-> None]

NewPlanner(dry_run) ==
    [dry_run |-> dry_run, files |-> <<>>, renames |-> <<>>,
     created |-> {}, modified |-> {}, deleted |-> {}, descriptions |-> <<>>,
     bytes_added |-> 0, bytes_removed |-> 0]

\* BTreeMap::insert / BTreeMap::remove on the plan
Insert(files, path, entry) ==
    [x \in DOMAIN files \cup {path} |-> IF x = path THEN entry ELSE files[x]]
Remove(files, path) == [x \in DOMAIN files \ {path} |-> files[x]]

\* the result of a planner step: the error, if any, and the planner it leaves
POk(pl) == [ok |-> TRUE, error |-> "", pl |-> pl]
PErr(e, pl) == [ok |-> FALSE, error |-> e, pl |-> pl]

\* read_file_normalized: None for a missing file
read_file_normalized(d, path) ==
    IF d[path] = None THEN None ELSE Some(normalize_newlines(d[path][1]))

path_exists_on_disk(d, path) == d[path] # None

ensure_entry(pl, d, path) ==
    IF path \in DOMAIN pl.files THEN POk(pl)
    ELSE IF read_file_normalized(d, path) # None
         THEN POk([pl EXCEPT !.files =
                      Insert(@, path, existing(read_file_normalized(d, path)[1]))])
         ELSE PErr("File not found", pl)

ensure_entry_allow_new(pl, d, path) ==
    IF path \in DOMAIN pl.files THEN POk(pl)
    ELSE IF read_file_normalized(d, path) # None
         THEN POk([pl EXCEPT !.files =
                      Insert(@, path, existing(read_file_normalized(d, path)[1]))])
         ELSE POk([pl EXCEPT !.files = Insert(@, path, new_missing)])

record_delta(pl, delta) ==
    IF delta > 0 THEN [pl EXCEPT !.bytes_added = @ + delta]
    ELSE IF delta < 0 THEN [pl EXCEPT !.bytes_removed = @ - delta]
    ELSE pl

mark_created(pl, path) ==
    [pl EXCEPT !.created = @ \cup {path}, !.modified = @ \ {path},
               !.deleted = @ \ {path}]

\* a variant that leaves the path in the deleted set
mark_modified_keep_deleted(pl, path) ==
    [pl EXCEPT !.modified = IF path \in pl.created THEN @ ELSE @ \cup {path}]

mark_modified(pl, path) ==
    [pl EXCEPT !.modified = IF path \in pl.created THEN @ ELSE @ \cup {path},
               !.deleted = @ \ {path}]

mark_deleted(pl, path) ==
    [pl EXCEPT !.created = @ \ {path}, !.modified = @ \ {path},
               !.deleted = @ \cup {path}]

Reassign(set, from, to) == IF from \in set THEN (set \ {from}) \cup {to} ELSE set

reassign_path(pl, from, to) ==
    [pl EXCEPT !.created = Reassign(@, from, to),
               !.modified = Reassign(@, from, to),
               !.deleted = Reassign(@, from, to)]

OptLen(o) == IF o = None THEN 0 ELSE Len(o[1])

\* set_current on a path that has a plan entry
set_current(pl, path, new_content) ==
    LET entry == pl.files[path]
        prev_len == OptLen(entry.current)
        pl1 == [pl EXCEPT !.files[path].current = Some(new_content)]
        pl2 == record_delta(pl1, Len(new_content) - prev_len)
    IN  IF entry.original = None THEN mark_created(pl2, path)
        ELSE mark_modified(pl2, path)

\* delete_current on a path that has a plan entry
delete_current(pl, path) ==
    LET entry == pl.files[path]
        pl1 == [pl EXCEPT !.files[path].current = None]
        pl2 == record_delta(pl1, 0 - OptLen(entry.current))
    IN  IF entry.current = None THEN PErr("File already deleted", pl)
        ELSE IF entry.original # None THEN POk(mark_deleted(pl2, path))
        ELSE POk([pl2 EXCEPT !.created = @ \ {path}, !.modified = @ \ {path}])

Describe(pl, op) ==
    [pl EXCEPT !.descriptions = Append(@, [op |-> op.op, path |-> op.path, to |-> op.to])]

\* the new content an edit op computes from the current one and the match
Spliced(op, current, needle, idx) ==
    CASE op.op = "ReplaceOnce" ->
            replace_range(current, idx, Len(needle), normalize_newlines(op.with))
      [] op.op = "InsertBefore" ->
            insert_str(current, idx, normalize_newlines(op.with))
      [] OTHER ->
            insert_str(current, idx + Len(needle), normalize_newlines(op.with))

\* a variant that searches for the operand as given
needle_of_raw(op) == op.text

\* let needle = normalize_newlines(find)
needle_of(op) == normalize_newlines(op.text)

\* ReplaceOnce, InsertBefore, InsertAfter
apply_edit(pl, d, op) ==
    LET e == ensure_entry(pl, d, op.path)
        current == e.pl.files[op.path].current
        needle == needle_of(op)
        idx == exactly_once(current[1], needle)
    IN  IF ~e.ok THEN e
        ELSE IF current = None THEN PErr("File has been deleted", e.pl)
        ELSE IF ~idx.ok THEN PErr(idx.val.error, e.pl)
        ELSE POk(Describe(set_current(e.pl, op.path,
                              Spliced(op, current[1], needle, idx.val)), op))

apply_set_file(pl, d, op) ==
    LET e == ensure_entry_allow_new(pl, d, op.path)
    IN  POk(Describe(set_current(e.pl, op.path, normalize_newlines(op.text)), op))

apply_delete_file(pl, d, op) ==
    LET e == ensure_entry(pl, d, op.path)
        r == delete_current(e.pl, op.path)
    IN  IF ~e.ok THEN e
        ELSE IF ~r.ok THEN r
        ELSE POk(Describe(r.pl, op))

\* a variant that does not look for the destination on disk
target_taken_in_plan_only(pl, d, to) ==
    to \in DOMAIN pl.files /\ pl.files[to].current # None

\* the destination has planned content, or has no plan entry and is on disk
target_taken(pl, d, to) ==
    IF to \in DOMAIN pl.files THEN pl.files[to].current # None
    ELSE path_exists_on_disk(d, to)

apply_rename_file(pl, d, op) ==
    LET e == ensure_entry(pl, d, op.path)
        \* a destination entry without content is dropped from the plan
        cleared == IF op.to \in DOMAIN e.pl.files
                   THEN [e.pl EXCEPT !.files = Remove(@, op.to),
                                     !.created = @ \ {op.to},
                                     !.modified = @ \ {op.to},
                                     !.deleted = @ \ {op.to}]
                   ELSE e.pl
        entry == cleared.files[op.path]
        moved == [cleared EXCEPT !.files = Insert(Remove(@, op.path), op.to, entry)]
        renamed == [reassign_path(moved, op.path, op.to) EXCEPT
                       !.renames = Append(@, [from |-> op.path, to |-> op.to,
                                              should_rename |-> entry.original # None])]
    IN  IF op.path = op.to THEN PErr("Source and destination paths are the same", pl)
        ELSE IF ~e.ok THEN e
        ELSE IF e.pl.files[op.path].current = None THEN PErr("File not found", e.pl)
        ELSE IF target_taken(e.pl, d, op.to) THEN PErr("Target already exists", e.pl)
        ELSE POk(Describe(renamed, op))

apply_op(pl, d, op) ==
    CASE op.op = "SetFile" -> apply_set_file(pl, d, op)
      [] op.op \in EditKinds -> apply_edit(pl, d, op)
      [] op.op = "DeleteFile" -> apply_delete_file(pl, d, op)
      [] OTHER -> apply_rename_file(pl, d, op)

\* the loop over self.renames; tokio::fs::rename fails on a missing source
RECURSIVE commit_renames(_, _)
commit_renames(renames, d) ==
    IF renames = <<>> THEN [ok |-> TRUE, error |-> "", disk |-> d]
    ELSE LET r == Head(renames)
         IN  IF ~r.should_rename \/ r.from = r.to
             THEN commit_renames(Tail(renames), d)
             ELSE IF d[r.from] = None
             THEN [ok |-> FALSE, error |-> "Failed to rename", disk |-> d]
             ELSE commit_renames(Tail(renames),
                      [d EXCEPT ![r.to] = d[r.from], ![r.from] = None])

\* the loop over self.files, in path order: write or remove
RECURSIVE commit_files(_, _, _)
commit_files(paths, files, d) ==
    IF paths = <<>> THEN d
    ELSE LET path == Head(paths)
             entry == files[path]
             d1 == IF entry.current # None
                   THEN IF entry.original = None \/ entry.original # entry.current
                        THEN [d EXCEPT ![path] = entry.current]
                        ELSE d
                   ELSE IF entry.original # None
                        THEN [d EXCEPT ![path] = None]
                        ELSE d
         IN  commit_files(Tail(paths), files, d1)

InPlan(files, path) == path \in DOMAIN files

commit(pl, d) ==
    LET r == commit_renames(pl.renames, d)
    IN  IF ~r.ok THEN r
        ELSE [r EXCEPT !.disk =
                 commit_files(SelectSeq(PathOrder, LAMBDA x : InPlan(pl.files, x)),
                              pl.files, r.disk)]

build_summary(pl) ==
    [dry_run |-> pl.dry_run, created |-> pl.created, modified |-> pl.modified,
     deleted |-> pl.deleted, renames |-> pl.renames,
     descriptions |-> pl.descriptions,
     bytes_added |-> pl.bytes_added, bytes_removed |-> pl.bytes_removed]

\* a variant of finish that commits in a dry run too
commits_always(dry_run) == TRUE

\* if !self.dry_run { self.commit().await?; }
commits(dry_run) == ~dry_run

finish(pl, d) ==
    LET c == commit(pl, d)
    IN  IF commits(pl.dry_run)
        THEN IF c.ok THEN [result |-> Ok(build_summary(pl)), disk |-> c.disk]
             ELSE [result |-> Err(c.error), disk |-> c.disk]
        ELSE [result |-> Ok(build_summary(pl)), disk |-> d]

\* the content the plan holds for a path: its entry's, or the file's once read
planned_content(pl, d, path) ==
    IF path \in DOMAIN pl.files THEN pl.files[path].current
    ELSE read_file_normalized(d, path)

IdlePlanner ==
    [pc |-> "idle", caller |-> "", pl |-> NewPlanner(FALSE), n |-> 0,
     failed |-> FALSE, result |-> None, last |-> None, disk0 |-> <<>>]

\* files are put on disk before the planner runs
EnvWriteFile ==
    /\ planner.pc = "idle"
    /\ \E path \in Paths, text \in FileTexts :
          /\ disk[path] = None
          /\ disk' = [disk EXCEPT ![path] = Some(text)]
    /\ UNCHANGED <<load_result, fsread, validation, tui, history_file, messages, bus, receiverAlive, disp, agent, http, planner>>

\* SimpleEditPlanner::new, by fs.apply_patch or by another user of the planner
PlannerNew ==
    /\ planner.pc = "idle"
    /\ \E dry_run \in BOOLEAN, caller \in {"apply_patch", "api"} :
          planner' = [IdlePlanner EXCEPT !.pc = "planning", !.caller = caller,
                                         !.pl = NewPlanner(dry_run), !.disk0 = disk]
    /\ UNCHANGED <<load_result, fsread, validation, tui, history_file, messages, bus, receiverAlive, disp, agent, http, disk>>

\* a variant of fs.apply_patch that goes on after a failed op
goes_on_always(failed) == TRUE

\* fs.apply_patch: any error during plan fails the whole operation
goes_on(failed) == ~failed

CallerGoesOn == planner.caller = "apply_patch" => goes_on(planner.failed)

\* one apply_op call; the record of the call is kept for the properties
PlannerApplyOp ==
    /\ planner.pc = "planning"
    /\ planner.n < MaxOps
    /\ CallerGoesOn
    /\ \E op \in Ops :
          LET r == apply_op(planner.pl, disk, op)
          IN  planner' = [planner EXCEPT
                  !.pl = r.pl, !.n = @ + 1, !.failed = @ \/ ~r.ok,
                  !.last = Some([op |-> op, ok |-> r.ok, error |-> r.error,
                                 before |-> planned_content(planner.pl, disk, op.path),
                                 plan |-> planner.pl])]
    /\ UNCHANGED <<load_result, fsread, validation, tui, history_file, messages, bus, receiverAlive, disp, agent, http, disk>>

\* SimpleEditPlanner::finish
PlannerFinish ==
    /\ planner.pc = "planning"
    /\ CallerGoesOn
    /\ LET f == finish(planner.pl, disk)
       IN  /\ disk' = f.disk
           /\ planner' = [planner EXCEPT !.pc = "done", !.result = Some(f.result)]
    /\ UNCHANGED <<load_result, fsread, validation, tui, history_file, messages, bus, receiverAlive, disp, agent, http>>

\* fs.apply_patch after a failed op: the error is its result
PlannerFail ==
    /\ planner.pc = "planning"
    /\ planner.caller = "apply_patch"
    /\ planner.failed
    /\ planner' = [planner EXCEPT !.pc = "done",
                                  !.result = Some(Err("Failed to apply edits"))]
    /\ UNCHANGED <<load_result, fsread, validation, tui, history_file, messages, bus, receiverAlive, disp, agent, http, disk>>

PlannerNext ==
    EnvWriteFile \/ PlannerNew \/ PlannerApplyOp \/ PlannerFinish \/ PlannerFail

(***************************************************************************)
(* OpenRouterAgent::submit.  The run is long, so the logs (bus, request    *)
(* messages, outcomes) are switched off; http.tries logs every request.    *)
(***************************************************************************)
\* `if turns > 8`
max_tool_turns == 8

map_tool_name(name) ==
    CASE name = "fs.read" -> Some("FsRead")
      [] name = "fs.search" -> Some("FsSearch")
      [] name = "fs.write" -> Some("FsWrite")
      [] name = "fs.apply_patch" -> Some("FsApplyPatch")
      [] name = "fs.find" -> Some("FsFind")
      [] name = "fs.read_all_code" -> Some("FsReadAllCode")
      [] name = "shell.exec" -> Some("ShellExec")
      [] name = "code.symbols" -> Some("CodeSymbols")
      [] OTHER -> None

\* the task calls submit; enable_interleaved_thinking is as the
\* environment set it when the agent was made
OrSubmit ==
    /\ agent.pc = "idle"
    /\ \E thinking \in BOOLEAN :
          agent' = [IdleAgent EXCEPT !.pc = "or_loop", !.input = "hello",
                       !.recording = FALSE, !.thinking = thinking]
    /\ http' = IdleHttp
    /\ UNCHANGED <<messages, bus, receiverAlive, disp, disk, planner,
                   history_file, tui, validation, fsread, load_result>>

\* top of the loop: the cap, turns += 1, ChatCreated on the first turn, and
\* the turn's request goes out in http_post
OrLoop ==
    /\ agent.pc = "or_loop"
    /\ IF agent.turns > max_tool_turns
       THEN /\ agent' = [agent EXCEPT !.pc = "returned",
                  !.result = Some(Err(AgentError("Processing", "Too many tool turns")))]
            /\ UNCHANGED <<bus, http>>
       ELSE /\ agent' = [agent EXCEPT !.pc = "or_post", !.turns = @ + 1]
            /\ bus' = IF agent.turns + 1 = 1 THEN Send(bus, PlainEvent("ChatCreated"))
                      ELSE bus
            /\ http' = [http EXCEPT !.tries = Append(@, "turn")]
    /\ UNCHANGED <<messages, receiverAlive, disp, disk, planner,
                   history_file, tui, validation, fsread, load_result>>

\* http_post returns an error or a response, which is inspected
OrResponse ==
    /\ agent.pc = "or_post"
    /\ \/ agent' = [agent EXCEPT !.pc = "returned",
                !.result = Some(Err(AgentError("Network", "request error")))]
       \/ \E r \in Responses :
             LET a == [agent EXCEPT !.token_usage = @ \/ r.usage]
             IN  agent' =
                   CASE r.kind = "no_choices" ->
                          [a EXCEPT !.pc = "returned",
                              !.result = Some(Err(AgentError("Processing", "no choices")))]
                     [] r.kind = "tool_calls" ->
                          [a EXCEPT !.pc = "or_calls", !.calls = r.calls, !.k = 1]
                     [] r.kind = "content" ->
                          [a EXCEPT !.pc = "complete", !.final_text = r.content[1].text]
                     [] OTHER -> [a EXCEPT !.pc = "complete"]
    /\ UNCHANGED <<messages, bus, receiverAlive, disp, http, disk, planner,
                   history_file, tui, validation, fsread, load_result>>

\* `for call in tool_calls`: the next call is checked and dispatched; after
\* the last one the loop continues, through the thinking request if enabled
OrNextCall ==
    /\ agent.pc = "or_calls"
    /\ IF agent.k > Len(agent.calls)
       THEN /\ agent' = [agent EXCEPT !.pc =
                  IF agent.thinking /\ agent.turns > 1 THEN "or_think" ELSE "or_loop"]
            /\ UNCHANGED <<bus, disp>>
       ELSE LET call == agent.calls[agent.k]
                tool_name == map_tool_name(call.name)
                args == ParseArguments(call.arguments)
            IN  CASE tool_name = None ->
                       /\ agent' = [agent EXCEPT !.pc = "returned",
                             !.result = Some(Err(AgentError("Processing", "unknown tool")))]
                       /\ UNCHANGED <<bus, disp>>
                  [] tool_name # None /\ ~args.ok ->
                       /\ agent' = [agent EXCEPT !.pc = "returned",
                             !.result = Some(Err(AgentError("Processing", "invalid tool args")))]
                       /\ UNCHANGED <<bus, disp>>
                  [] tool_name # None /\ args.ok
                        /\ ~validate_args(tool_name[1],
                               ArgValue(tool_name[1], args.val.args)).ok ->
                       /\ bus' = Send(bus, ErrorEvent([about |-> "",
                                          text |-> "tool args validation failed"]))
                       /\ agent' = [agent EXCEPT !.k = @ + 1]
                       /\ UNCHANGED disp
                  [] OTHER ->
                       /\ disp[1].pc = "idle"
                       /\ disp' = [disp EXCEPT ![1] =
                             Dispatch(1, call.id, tool_name[1], args.val.args, FALSE)]
                       /\ agent' = [agent EXCEPT !.pc = "or_in_tool"]
                       /\ UNCHANGED bus
    /\ UNCHANGED <<messages, receiverAlive, http, disk, planner,
                   history_file, tui, validation, fsread, load_result>>

\* execute_tool_with_result has returned: the role=tool message is pushed
OrToolDone ==
    /\ agent.pc = "or_in_tool"
    /\ disp[1].pc = "done"
    /\ LET tool_result == tool_result_json(disp[1].ret[1], disp[1].tool, disp[1].args)
       IN  agent' = [agent EXCEPT !.pc = "or_calls", !.k = @ + 1,
                 !.messages = PushReq(@, ReqMessage("tool",
                                  Some(ToJsonString(tool_result)), None,
                                  Some(agent.calls[agent.k].id)))]
    /\ disp' = [disp EXCEPT ![1] = IdleDisp]
    /\ UNCHANGED <<messages, bus, receiverAlive, http, disk, planner,
                   history_file, tui, validation, fsread, load_result>>

\* the thinking request between two turns; its failure is ignored
OrThink ==
    /\ agent.pc = "or_think"
    /\ http' = [http EXCEPT !.tries = Append(@, "thinking")]
    /\ \E thought \in BOOLEAN :
          /\ bus' = IF thought THEN Send(bus, ResultEvent("AgentThinking", "t")) ELSE bus
          /\ agent' = [agent EXCEPT !.pc = "or_loop",
                !.messages = IF thought
                             THEN PushReq(@, ReqMessage("assistant", Some(Text("t")),
                                                        None, None))
                             ELSE @]
    /\ UNCHANGED <<messages, receiverAlive, disp, disk, planner,
                   history_file, tui, validation, fsread, load_result>>

(***************************************************************************)
(* The TUI: submit_input, the event loop, and the tasks that               *)
(* Session::handle_user_input spawns, as the event loop sees them          *)
(***************************************************************************)
MaxSubmits == 2

\* what the input line may hold when Enter is pressed
TuiInputs == {"", "hello", "/clear", "/info"}

\* input.trim().is_empty()
is_blank(input) == input = ""

\* the events of the bus the event loop has not yet received
Pending == tui.handled < Len(bus)

\* `|| state.processing` of submit_input's early return
is_processing(processing) == processing

\* InputHandler::submit_input
SubmitInput ==
    \E input \in TuiInputs :
        IF is_blank(input) \/ is_processing(tui.processing)
        THEN UNCHANGED vars
        ELSE CASE input = "/clear" ->
                    /\ messages' = clear(messages)
                    /\ tui' = [tui EXCEPT !.processing = FALSE]
                    /\ UNCHANGED <<load_result, fsread, validation, history_file, bus, receiverAlive, disp, agent,
                                   http, disk, planner>>
               [] input = "/info" ->
                    /\ Len(messages) < 2 * MaxSubmits + 1
                    /\ messages' = add_system_message(messages, "info")
                    /\ tui' = [tui EXCEPT !.processing = FALSE]
                    /\ UNCHANGED <<load_result, fsread, validation, history_file, bus, receiverAlive, disp, agent,
                                   http, disk, planner>>
               [] OTHER ->
                    /\ Len(tui.tasks) < MaxSubmits
                    /\ messages' = add_user_message(messages, input)
                    /\ tui' = [tui EXCEPT !.processing = TRUE,
                                          !.tasks = Append(@, "spawned")]
                    /\ UNCHANGED <<load_result, fsread, validation, history_file, bus, receiverAlive, disp, agent,
                                   http, disk, planner>>

\* submit, first turn: ChatCreated
TaskCreated(i) ==
    /\ tui.tasks[i] = "spawned"
    /\ bus' = Send(bus, PlainEvent("ChatCreated"))
    /\ tui' = [tui EXCEPT !.tasks[i] = "running"]
    /\ UNCHANGED <<load_result, fsread, validation, messages, history_file, receiverAlive, disp, agent, http, disk, planner>>

\* the tool calls one submission may dispatch
MaxTaskTools == 2

\* the call id the provider gives to the tool calls of the i-th submission
TaskCallId(i) == CASE i = 1 -> "a" [] i = 2 -> "b" [] i = 3 -> "c" [] OTHER -> "d"

\* execute_tool_with_result, up to the executor: ToolBegin is sent
TaskToolBegin(i) ==
    /\ tui.tasks[i] = "running"
    /\ Cardinality({k \in 1..Len(bus) : bus[k].type = "ToolBegin"
                                        /\ bus[k].id = TaskCallId(i)}) < MaxTaskTools
    /\ bus' = Send(bus, ToolBegin(TaskCallId(i), "FsRead"))
    /\ tui' = [tui EXCEPT !.tasks[i] = "in_tool"]
    /\ UNCHANGED <<load_result, fsread, validation, messages, history_file, receiverAlive, disp, agent, http, disk, planner>>

\* execute_tool_with_result, the rest: the executor succeeds and sends its
\* ToolResult, or fails; then ToolEnd is sent
TaskToolEnd(i) ==
    /\ tui.tasks[i] = "in_tool"
    /\ \E ok \in BOOLEAN :
          bus' = SendAll(bus, (IF ok THEN <<ToolResult(TaskCallId(i), "p")>> ELSE <<>>)
                                 \o <<ToolEnd(TaskCallId(i), ok)>>)
    /\ tui' = [tui EXCEPT !.tasks[i] = "running"]
    /\ UNCHANGED <<load_result, fsread, validation, messages, history_file, receiverAlive, disp, agent, http, disk, planner>>

\* submit returns: Ok after ChatCompleted, or an AgentError
TaskReturns(i) ==
    /\ tui.tasks[i] = "running"
    /\ \/ /\ bus' = Send(bus, ResultEvent("ChatCompleted", FALSE))
          /\ tui' = [tui EXCEPT !.tasks[i] = "returned_ok"]
       \/ /\ bus' = bus
          /\ tui' = [tui EXCEPT !.tasks[i] = "returned_err"]
    /\ UNCHANGED <<load_result, fsread, validation, messages, history_file, receiverAlive, disp, agent, http, disk, planner>>

\* the spawned task sends the terminal event of its submission
TaskSendsTerminal(i) ==
    /\ tui.tasks[i] \in {"returned_ok", "returned_err"}
    /\ bus' = SendAll(bus, TerminalEvents(IF tui.tasks[i] = "returned_ok"
                                          THEN Ok("c1")
                                          ELSE Err("failed")))
    /\ tui' = [tui EXCEPT !.tasks[i] = "finished", !.terminals = Append(@, i)]
    /\ UNCHANGED <<load_result, fsread, validation, messages, history_file, receiverAlive, disp, agent, http, disk, planner>>

\* EventHandler::handle_event on the next event of the channel
HandleEvent ==
    /\ Pending
    /\ LET e == bus[tui.handled + 1]
       IN  CASE e.type = "AgentResponse" ->
                  /\ messages' = add_agent_message(messages, e.data)
                  /\ history_file' = save(messages')
                  /\ tui' = [tui EXCEPT !.handled = @ + 1, !.processing = FALSE]
             [] e.type = "AgentError" ->
                  /\ messages' = add_error_message(messages, e.data)
                  /\ tui' = [tui EXCEPT !.handled = @ + 1, !.processing = FALSE]
                  /\ UNCHANGED history_file
             [] e.type = "ChatCompleted" ->
                  /\ tui' = [tui EXCEPT !.handled = @ + 1, !.processing = FALSE]
                  /\ UNCHANGED <<messages, history_file>>
             [] e.type = "ToolBegin" ->
                  /\ messages' = handle_tool_begin(
                        add_system_message(messages, <<"Agent ran tool", e.data>>), e.id)
                  /\ tui' = [tui EXCEPT !.handled = @ + 1]
                  /\ UNCHANGED history_file
             [] e.type = "ToolProgress" ->
                  /\ messages' = handle_tool_progress(messages, e.id)
                  /\ tui' = [tui EXCEPT !.handled = @ + 1]
                  /\ UNCHANGED history_file
             [] e.type = "ToolStdout" ->
                  /\ messages' = handle_tool_stdout(messages, e.id, e.data)
                  /\ tui' = [tui EXCEPT !.handled = @ + 1]
                  /\ UNCHANGED history_file
             [] e.type = "ToolStderr" ->
                  /\ messages' = handle_tool_stderr(messages, e.id, e.data)
                  /\ tui' = [tui EXCEPT !.handled = @ + 1]
                  /\ UNCHANGED history_file
             [] e.type = "ToolResult" ->
                  /\ messages' = handle_tool_result(messages, e.id, e.data)
                  /\ tui' = [tui EXCEPT !.handled = @ + 1]
                  /\ UNCHANGED history_file
             [] e.type = "ToolEnd" ->
                  /\ messages' = handle_tool_end(messages, e.id, e.data)
                  /\ tui' = [tui EXCEPT !.handled = @ + 1]
                  /\ UNCHANGED history_file
             [] e.type = "Error" ->
                  /\ messages' = add_error_message(messages, e.data)
                  /\ tui' = [tui EXCEPT !.handled = @ + 1]
                  /\ UNCHANGED history_file
             [] OTHER ->
                  /\ tui' = [tui EXCEPT !.handled = @ + 1]
                  /\ UNCHANGED <<messages, history_file>>
    /\ UNCHANGED <<load_result, fsread, validation, bus, receiverAlive, disp, agent, http, disk, planner>>

TuiNext ==
    \/ SubmitInput \/ HandleEvent
    \/ \E i \in 1..Len(tui.tasks) :
          TaskCreated(i) \/ TaskReturns(i) \/ TaskSendsTerminal(i)

(***************************************************************************)
(* Specifications                                                          *)
(***************************************************************************)
\* AppState::new
\* terminals logs, in send order, which task sent each terminal event
IdleTui == [processing |-> FALSE, handled |-> 0, tasks |-> <<>>, terminals |-> <<>>]

Init ==
    /\ messages = <<>>
    /\ bus = <<>>
    /\ receiverAlive = TRUE
    /\ disp = [s \in Slots |-> IdleDisp]
    /\ agent = IdleAgent
    /\ http = IdleHttp
    /\ disk = [path \in Paths |-> None]
    /\ planner = IdlePlanner
    /\ history_file = None
    /\ tui = IdleTui
    /\ validation = NoValidation
    /\ fsread = NoRead
    /\ load_result = None

\* a Session driven through its public operations
Next == SessionNext

Spec == Init /\ [][Next]_vars

\* a caller starts a dispatch: execute_tool_with_result or execute_tool
Call(s) ==
    /\ disp[s].pc = "idle"
    /\ \E tool \in ToolNames, args \in ArgClasses, legacy \in BOOLEAN :
          /\ args = "empty_command" => tool = "ShellExec"
          /\ s # 1 => tool = "FsRead" /\ args = "valid" /\ ~legacy
          /\ disp' = [disp EXCEPT ![s] = Dispatch(s, SlotId(s), tool, args, legacy)]
    /\ UNCHANGED <<load_result, fsread, validation, tui, history_file, disk, planner, messages, bus, receiverAlive, agent, http>>

\* one dispatch, its child process and reader tasks, a receiver that may go
Dispatch1Next == Call(1) \/ DispatcherStep(1) \/ ProcessStep(1) \/ DropReceiver

DispatchSpec == Init /\ [][Dispatch1Next]_vars

\* two dispatches with different ids, run concurrently
ConcurrentNext == \E s \in Slots : Call(s) \/ DispatcherStep(s) \/ ProcessStep(s)

ConcurrentSpec == Init /\ [][ConcurrentNext]_vars

\* one user submission: the background task, its requests and its tools
FsDispatcherStep(s) == DispatchBegin(s) \/ FsStart(s) \/ FsWork(s) \/ DispatchEnd(s)

AgentNext == AgentStep(TRUE) \/ FsDispatcherStep(1) \/ DropReceiver

AgentSpec == Init /\ [][AgentNext]_vars

\* the same, with a provider that may ask for tools in every turn
AgentLiveNext == AgentStep(FALSE) \/ FsDispatcherStep(1) \/ DropReceiver

AgentLiveSpec == Init /\ [][AgentLiveNext]_vars /\ WF_vars(AgentLiveNext)

\* a SimpleEditPlanner run over a list of at most MaxOps ops
PlannerSpec == Init /\ [][PlannerNext]_vars

\* the dispatches one caller may make
MaxDispatches == 2

\* the caller has its result and its ToolExecutor is free for the next call,
\* for which the provider may send the same call id again
CallerTakes(s) ==
    /\ disp[s].pc = "done"
    /\ Cardinality({k \in 1..Len(bus) : bus[k].type = "ToolBegin"}) < MaxDispatches
    /\ disp' = [disp EXCEPT ![s] = IdleDisp]
    /\ UNCHANGED <<load_result, fsread, validation, tui, history_file, disk, planner, messages, bus, receiverAlive, agent, http>>

\* a caller starts execute_tool_with_result for shell.exec
ShellCall(s) ==
    /\ disp[s].pc = "idle"
    /\ \E args \in ArgClasses :
          disp' = [disp EXCEPT ![s] = Dispatch(s, SlotId(s), "ShellExec", args, FALSE)]
    /\ UNCHANGED <<load_result, fsread, validation, tui, history_file, disk, planner, messages, bus, receiverAlive, agent, http>>

\* shell.exec dispatches made one after the other, whose events the event
\* loop of the TUI handles
ShellUiNext ==
    \/ ShellCall(1) \/ CallerTakes(1) \/ HandleEvent
    \/ DispatchBegin(1) \/ DispatchEnd(1)
    \/ ShellStart(1) \/ ShellSpawn(1) \/ ShellWait(1)
    \/ ShellJoinStdout(1) \/ ShellJoinStderr(1) \/ ShellFinish(1)
    \/ ChildWrite(1) \/ ChildExit(1)
    \/ StdoutTaskLine(1) \/ StderrTaskLine(1)
    \/ StdoutTaskEof(1) \/ StderrTaskEof(1)

ShellUiSpec == Init /\ [][ShellUiNext]_vars

\* the TUI with submissions that dispatch tools
TuiToolNext ==
    \/ TuiNext
    \/ \E i \in 1..Len(tui.tasks) : TaskToolBegin(i) \/ TaskToolEnd(i)

TuiToolSpec == Init /\ [][TuiToolNext]_vars

\* one submission to an OpenRouterAgent
OpenRouterNext ==
    \/ OrSubmit \/ OrLoop \/ OrResponse \/ OrNextCall \/ OrToolDone \/ OrThink
    \/ AgentComplete \/ AgentSendTerminal
    \/ FsDispatcherStep(1)

OpenRouterSpec == Init /\ [][OpenRouterNext]_vars

\* the session log an earlier submission leaves behind when it ran the tool
\* call `id`: the user message, the two messages of the ToolBegin handler,
\* the updates of ToolResult and ToolEnd, and the agent's answer
LogAfterToolRun(id) ==
    add_agent_message(
        handle_tool_end(
            handle_tool_result(
                handle_tool_begin(
                    add_system_message(add_user_message(<<>>, "earlier"),
                                       <<"Agent ran tool", "s">>),
                    id),
                id, "p"),
            id, TRUE),
        "c1")

EarlierLogs == {<<>>, LogAfterToolRun("a")}

\* a submission made on top of the log of an earlier one
ResubmitInit ==
    /\ messages \in EarlierLogs
    /\ bus = <<>> /\ receiverAlive = TRUE
    /\ disp = [s \in Slots |-> IdleDisp]
    /\ agent = IdleAgent /\ http = IdleHttp
    /\ disk = [path \in Paths |-> None] /\ planner = IdlePlanner
    /\ history_file = None /\ tui = IdleTui /\ validation = NoValidation
    /\ fsread = NoRead
    /\ load_result = None

ResubmitSpec == ResubmitInit /\ [][AgentNext]_vars

\* fs.read applied once to each file and range
ReadInit ==
    /\ messages = <<>> /\ bus = <<>> /\ receiverAlive = TRUE
    /\ disp = [s \in Slots |-> IdleDisp]
    /\ agent = IdleAgent /\ http = IdleHttp
    /\ disk = [path \in Paths |-> None] /\ planner = IdlePlanner
    /\ history_file = None /\ tui = IdleTui /\ validation = NoValidation
    /\ \E text \in ReadTexts, start \in Offsets, end \in Offsets :
          fsread = [text |-> text, start |-> start, end |-> end, outcome |-> None]
    /\ load_result = None

ReadSpec == ReadInit /\ [][FsReadRange]_vars

\* validate_args applied once to each tool and argument value
ValidateInit ==
    /\ messages = <<>> /\ bus = <<>> /\ receiverAlive = TRUE
    /\ disp = [s \in Slots |-> IdleDisp]
    /\ agent = IdleAgent /\ http = IdleHttp
    /\ disk = [path \in Paths |-> None] /\ planner = IdlePlanner
    /\ history_file = None /\ tui = IdleTui /\ fsread = NoRead
    /\ load_result = None
    /\ \E tool \in {"FsRead", "FsWrite", "ShellExec", "FsSearch"},
          v \in Objects \cup NonObjects :
          validation = [tool |-> tool, args |-> v, result |-> None]

ValidateSpec == ValidateInit /\ [][ValidateArgs]_vars

\* the TUI with at most MaxSubmits submissions
TuiSpec == Init /\ [][TuiNext]_vars

\* a Session with its history file: save and load_into, and the mutators
\* that make the vectors to save, tool results that are JSON null included
HistoryNext ==
    \/ AddUserMessage \/ AddAgentMessage \/ Clear
    \/ \E id \in Ids : HandleToolBegin(id) \/ HandleToolResultFrom(id, JsonPayloads)
    \/ Save \/ LoadInto \/ ForeignFile

HistorySpec == Init /\ [][HistoryNext]_vars

(***************************************************************************)
(* Properties                                                              *)
(***************************************************************************)
Positions(type, id) == {k \in 1..Len(bus) : bus[k].type = type /\ bus[k].id = id}
Count(type, id) == Cardinality(Positions(type, id))
InnerTypes == {"ToolProgress", "ToolStdout", "ToolStderr", "ToolResult"}

\* C1: for the dispatch with id i the bus holds at most one ToolBegin{i} and
\* at most one ToolEnd{i}, exactly one of each once the dispatch has
\* returned, and every ToolProgress{i}, ToolStdout{i}, ToolStderr{i} and
\* ToolResult{i} lies after that ToolBegin and before that ToolEnd, also
\* with a second dispatch running concurrently.
C1_Lifecycle ==
    \A s \in Slots :
        LET i == SlotId(s)
        IN  /\ Count("ToolBegin", i) <= 1
            /\ Count("ToolEnd", i) <= 1
            /\ disp[s].pc = "done" => Count("ToolBegin", i) = 1 /\ Count("ToolEnd", i) = 1
            /\ \A k \in 1..Len(bus) :
                  bus[k].id = i /\ bus[k].type \in InnerTypes =>
                      /\ \E b \in Positions("ToolBegin", i) : b < k
                      /\ \A e \in Positions("ToolEnd", i) : k < e

ExecutorReturned(s) == disp[s].result # None

\* C2 as stated: an executor that returned Ok has sent exactly one
\* ToolResult for its id, one that returned Err has sent none.
C2_ResultIffOk ==
    \A s \in Slots :
        ExecutorReturned(s) =>
            Count("ToolResult", disp[s].id) = IF disp[s].result[1].ok THEN 1 ELSE 0

\* shell.exec has sent its ToolResult before it returns one of these errors
AfterResultErrors == {"Command failed with exit code", "Failed to send ToolResult"}

ErrAfterResult(s) ==
    /\ ~disp[s].result[1].ok
    /\ \/ /\ disp[s].tool = "ShellExec"
          /\ disp[s].result[1].val.error \in AfterResultErrors
       \/ /\ disp[s].tool = "LargeContextFetch"
          /\ disp[s].result[1].val.error = "Failed to send result event"

NonZeroExit(s) ==
    ErrAfterResult(s) /\ disp[s].result[1].val.error = "Command failed with exit code"

\* C2 amended: an executor that returned Ok has sent exactly one ToolResult
\* for its id; one that returned Err has sent none, except shell.exec, which
\* has sent exactly one when it returns the non-zero-exit error or (legacy
\* execute) the error of the failed ToolResult send itself, and
\* large_context_fetch when it returns the error of its failed ToolResult send.
C2_ResultUnlessShellErr ==
    \A s \in Slots :
        ExecutorReturned(s) =>
            Count("ToolResult", disp[s].id) =
                IF disp[s].result[1].ok \/ ErrAfterResult(s) THEN 1 ELSE 0

\* C2 witness: shell.exec has returned the non-zero-exit error after
\* streaming output and after its one ToolResult
C2_Witness ==
    /\ ExecutorReturned(1) /\ ~disp[1].legacy /\ NonZeroExit(1)
    /\ disp[1].stdout_task.lines # <<>>
    /\ Count("ToolResult", "a") = 1
    /\ receiverAlive

\* C3: once the per-tool executor of a dispatch has returned and the
\* dispatch is over, one ToolEnd has been sent for it, with ok =
\* result.is_ok(), and the dispatcher has handed the executor's result,
\* Ok or Err(e), unchanged to its caller.
C3_EndOkIsResult ==
    \A s \in Slots :
        /\ \A k \in Positions("ToolEnd", disp[s].id) :
              /\ ExecutorReturned(s)
              /\ bus[k].data = disp[s].result[1].ok
        /\ disp[s].pc = "done" /\ ExecutorReturned(s) =>
              /\ Count("ToolEnd", disp[s].id) = 1
              /\ disp[s].ret = disp[s].result

IsTool(m) == m.role = "Tool" /\ m.tool_info # None
Status(m) == m.tool_info[1].status

\* C4: a tool message is Running when handle_tool_begin creates it, and
\* over the session's handlers and add_* mutators a status that is
\* Completed or Failed never changes again.
C4_StatusTerminal ==
    [][ /\ \A id \in Ids : HandleToolBegin(id) =>
              Status(messages'[Len(messages')]) = "Running"
        /\ SessionAppendStep =>
              \A k \in 1..Len(messages) :
                  IsTool(messages[k]) /\ Status(messages[k]) \in {"Completed", "Failed"} =>
                      Status(messages'[k]) = Status(messages[k]) ]_vars

ToolIdOf(m) == IF m.tool_info = None THEN "" ELSE m.tool_info[1].id
SameMessage(m, n) == m.role = n.role /\ m.content = n.content /\ ToolIdOf(m) = ToolIdOf(n)

\* C5: every add_* mutator and every handle_tool_* handler keeps each
\* existing message at its index and adds at most one message, at the end;
\* so a step that drops or moves a message is a clear or a replace_messages.
C5_AppendOnly ==
    [][ SessionAppendStep =>
          /\ Len(messages') \in {Len(messages), Len(messages) + 1}
          /\ \A k \in 1..Len(messages) : SameMessage(messages[k], messages'[k]) ]_vars

\* C5 witness: a full vector whose first message, a finished tool message
\* with output and result, was followed by an agent message
C5_Witness ==
    /\ Len(messages) = MaxMessages
    /\ IsTool(messages[1]) /\ Status(messages[1]) = "Completed"
    /\ messages[1].tool_info[1].stdout # <<>>
    /\ messages[1].tool_info[1].result # None
    /\ messages[Len(messages)].role = "Agent"

IsLatestWithId(msgs, k, id) ==
    /\ IsToolWithId(msgs[k], id)
    /\ \A j \in (k + 1)..Len(msgs) : ~IsToolWithId(msgs[j], id)

ToolUpdate(id) ==
    \/ HandleToolStdout(id) \/ HandleToolStderr(id)
    \/ HandleToolResult(id) \/ HandleToolEnd(id)

\* C6: handle_tool_stdout, _stderr, _result and _end with id i change no
\* message other than the last Tool message whose id is i; without such a
\* message they change nothing.
C6_Frame ==
    [][ \A id \in Ids : ToolUpdate(id) =>
          /\ Len(messages') = Len(messages)
          /\ \A k \in 1..Len(messages) :
                messages'[k] # messages[k] => IsLatestWithId(messages, k, id) ]_vars

\* C6 witness: two Tool messages with id a; the newer one took stdout,
\* result and end, the older one is as handle_tool_begin made it
C6_Witness ==
    /\ Len(messages) = 2
    /\ IsToolWithId(messages[1], "a") /\ messages[1].tool_info[1] = NewToolInfo("a")
    /\ IsToolWithId(messages[2], "a")
    /\ Status(messages[2]) = "Failed" /\ messages[2].tool_info[1].stdout # <<>>
    /\ messages[2].tool_info[1].result # None

TerminalTypes == {"AgentResponse", "AgentError"}
Terminals == {k \in 1..Len(bus) : bus[k].type \in TerminalTypes}

\* C7 amended: the task spawned by handle_user_input sends at most one
\* terminal event and never both kinds; it has sent none while submit is
\* running and exactly one, AgentResponse for Ok and AgentError for Err,
\* once submit has returned and the task has finished.
C7_OneTerminalOnReturn ==
    /\ agent.sent <= 1
    /\ agent.pc = "finished" <=> agent.sent = 1
    /\ agent.recording =>
          /\ Cardinality(Terminals) = agent.sent
          /\ \A k \in Terminals :
                bus[k].type = IF agent.result[1].ok THEN "AgentResponse" ELSE "AgentError"

\* C7 as stated: never more than one terminal event, and every spawned
\* task eventually sends one, whatever the provider answers.
C7_EventuallyTerminal ==
    /\ [](agent.sent <= 1)
    /\ (agent.pc = "spawned") ~> (agent.sent = 1)

\* C7 witness: both providers failed, submit returned the Network error and
\* the task has sent its one AgentError
C7_Witness ==
    /\ agent.pc = "finished"
    /\ agent.recording
    /\ Len(http.tries) = 2
    /\ ~agent.result[1].ok /\ agent.result[1].val.error.kind = "Network"
    /\ agent.sent = 1
    /\ \E k \in Terminals : bus[k].type = "AgentError"

Dispatched(call) ==
    /\ tool_name_from_string(call.name) # None
    /\ ParseArguments(call.arguments).ok
    /\ validate_args(tool_name_from_string(call.name)[1],
                     ArgValue(tool_name_from_string(call.name)[1], call.arguments)).ok

CallIds(calls) == [j \in 1..Len(calls) |-> calls[j].id]
ToolCallIds(msgs) == [j \in 1..Len(msgs) |-> msgs[j].tool_call_id]
AllTool(msgs) == \A j \in 1..Len(msgs) : msgs[j].role = "tool"

\* C8: while the calls of a response are being worked through, the request
\* messages hold the assistant message carrying exactly those tool_calls,
\* already when the first tool is dispatched, and after it nothing but the
\* role=tool messages of the calls dispatched so far, in the order of the
\* calls in the response.
C8_AssistantThenResultsInOrder ==
    agent.pc \in {"calls", "in_tool"} =>
        \E p \in 1..Len(agent.messages) :
            LET rest == SubSeq(agent.messages, p + 1, Len(agent.messages))
                before == SubSeq(agent.calls, 1, agent.k - 1)
            IN  /\ agent.messages[p].role = "assistant"
                /\ agent.messages[p].tool_calls = Some(agent.calls)
                /\ AllTool(rest)
                /\ ToolCallIds(rest) = [j \in 1..Len(SelectSeq(before, Dispatched)) |->
                                           Some(SelectSeq(before, Dispatched)[j].id)]

\* C8 witness: both calls of a response <<b, a>> have been dispatched and
\* their tool messages follow the assistant message in that order
C8_Witness ==
    /\ agent.pc = "calls"
    /\ agent.k = 3
    /\ CallIds(agent.calls) = <<"b", "a">>
    /\ Len(agent.outcomes) = 2
    /\ agent.messages[Len(agent.messages) - 2].tool_calls = Some(agent.calls)
    /\ agent.messages[Len(agent.messages) - 1].tool_call_id = Some("b")
    /\ agent.messages[Len(agent.messages)].tool_call_id = Some("a")

ToolMessages == SelectSeq(agent.messages, LAMBDA m : m.role = "tool")
SubmitErrors ==
    {"no choices", "unknown tool", "invalid tool args"}

\* C9: every dispatch of the submission has its role=tool message, in
\* order and with the call's id; for a dispatch that returned Err(e) its
\* content is the serialized object {error: e, tool, args}; submit goes on
\* after it, and when submit returns Err the error is a Network error or
\* one of the Processing errors raised before a tool runs, never the tool's.
C9_ToolErrorBecomesMessage ==
    /\ Len(ToolMessages) = Len(agent.outcomes)
    /\ \A j \in 1..Len(agent.outcomes) :
          LET o == agent.outcomes[j]
              tool == tool_name_from_string(o.call.name)[1]
          IN  /\ ToolMessages[j].tool_call_id = Some(o.call.id)
              /\ ~o.ret.ok =>
                    ToolMessages[j].content =
                        Some(ToJsonString([error |-> o.ret.val.error, tool |-> tool,
                                           args |-> o.call.arguments]))
    /\ agent.result # None /\ ~agent.result[1].ok =>
          \/ agent.result[1].val.error.kind = "Network"
          \/ /\ agent.result[1].val.error.kind = "Processing"
             /\ agent.result[1].val.error.msg \in SubmitErrors

\* C9 witness: the first tool failed with File not found, the second
\* succeeded, a further turn followed and submit returned Ok
C9_Witness ==
    /\ agent.pc = "finished"
    /\ agent.result[1].ok
    /\ Len(agent.outcomes) = 2
    /\ ~agent.outcomes[1].ret.ok
    /\ agent.outcomes[1].ret.val.error = "File not found"
    /\ agent.outcomes[2].ret.ok
    /\ agent.turns = 2

FirstFailedSecondOk ==
    /\ agent.pc = "resp"
    /\ Len(http.tries) = 2
    /\ http.tries[1].name = "A" /\ http.tries[1].outcome \in {"transport", "status"}
    /\ http.tries[2].name = "B" /\ http.tries[2].outcome = "ok"

\* C10: with configs [A, B], when A has failed with a transport error or a
\* non-2xx status and B has answered with a parsable response, http_post
\* returns B's response and, within this call and before B was contacted,
\* an Error event naming A was sent.
C10_FallbackToSecond ==
    FirstFailedSecondOk =>
        /\ agent.resp = Some([from |-> "B", body |-> http.tries[2].body[1]])
        /\ \E k \in (http.tries[1].at + 1)..http.tries[2].at :
              bus[k].type = "Error" /\ bus[k].data.about = "A"

\* C10 witness: in the second turn A answered with a non-2xx status and B
\* with a final content response
C10_Witness ==
    /\ FirstFailedSecondOk
    /\ http.tries[1].outcome = "status"
    /\ agent.turns = 2
    /\ agent.resp[1].body.kind = "content"

\* C11: when every configured provider has failed in http_post (transport
\* error, non-2xx status or undecodable body), submit returns
\* Err(AgentError::Network(..)) carrying the error of the last provider
\* attempted, never the error of an earlier one.
AllProvidersFailed ==
    /\ agent.pc \in {"returned", "finished"}
    /\ Len(http.tries) = Len(ModelConfigs)
    /\ \A k \in 1..Len(http.tries) : http.tries[k].outcome # "ok"

C11_NetworkCarriesLastError ==
    /\ AllProvidersFailed =>
          LET last == http.tries[Len(http.tries)]
          IN  agent.result[1] =
                Err(AgentError("Network", [name |-> last.name,
                                           text |-> FailureText(last.outcome)]))
    /\ (agent.pc \in {"returned", "finished"} /\ ~agent.result[1].ok
            /\ agent.result[1].val.error.kind = "Network") => AllProvidersFailed

\* C11 witness: the first provider failed in transport, the last returned an
\* undecodable body, and the submission ended with the last one's error.
C11_Witness ==
    /\ agent.pc = "finished"
    /\ Len(http.tries) = 2
    /\ http.tries[1].outcome = "transport"
    /\ http.tries[2].outcome = "decode"
    /\ agent.result[1] = Err(AgentError("Network", [name |-> "B", text |-> "decode error"]))

\* where truncate_result has been applied in a finished dispatch: to the
\* value returned (fs.*, shell.exec) or to the event payload
\* (large_context_fetch)
ReturnedOk(s) ==
    /\ ExecutorReturned(s) /\ ~disp[s].legacy /\ disp[s].result[1].ok

ResultPayloads(s) == {bus[k].data : k \in Positions("ToolResult", disp[s].id)}

Stub(L, T) == [truncated |-> TRUE, original_size_bytes |-> L, max_allowed_bytes |-> T]

IsTruncationOf(out, in) ==
    out = IF in.size > max_output_size THEN Stub(in.size, max_output_size) ELSE in

C13_EventFullCallerStub ==
    \A s \in Slots :
        ReturnedOk(s) =>
            \A p \in ResultPayloads(s) :
                /\ "truncated" \notin DOMAIN p
                /\ p.size > max_output_size =>
                      disp[s].result[1].val = Stub(p.size, max_output_size)

\* the apply_op call just made was an edit op on a path with planned content
LastEdit ==
    /\ planner.last # None
    /\ planner.last[1].op.op \in EditKinds
    /\ planner.last[1].before # None

\* the byte offsets at which the needle occurs, overlapping occurrences too
Occurrences(haystack, needle) ==
    {i \in 0..Len(haystack) : MatchesAt(haystack, needle, i)}

\* C14: ReplaceOnce, InsertBefore and InsertAfter succeed iff the
\* newline-normalized find/anchor occurs exactly once in the current planned
\* content of the file; no occurrence fails with 'anchor not found', two or
\* more occurrences, overlapping ones counted, with 'anchor ambiguous
\* (found >1)'.
C14_AnchorExactlyOnce ==
    LastEdit =>
        LET l == planner.last[1]
            count == Cardinality(Occurrences(l.before[1], normalize_newlines(l.op.text)))
        IN  /\ l.ok <=> count = 1
            /\ count = 0 => l.error = "anchor not found"
            /\ count > 1 => l.error = "anchor ambiguous (found >1)"

\* finish has been called on the planner
Finished == planner.pc = "done" /\ ~(planner.caller = "apply_patch" /\ planner.failed)

\* C15: with dry_run = true, applying an op list and calling finish returns
\* the summary and leaves every file on disk as it was: nothing is created,
\* written, renamed or deleted.
C15_DryRunChangesNothing ==
    (planner.pc # "idle" /\ planner.pl.dry_run) =>
        /\ disk = planner.disk0
        /\ Finished => planner.result = Some(Ok(build_summary(planner.pl)))

\* C15 witness: a dry run that planned an edit and a deletion of files that
\* exist has finished
C15_Witness ==
    /\ Finished /\ planner.pl.dry_run /\ ~planner.failed
    /\ planner.pl.modified # {} /\ planner.pl.deleted # {}
    /\ planner.result[1].ok
    /\ \A path \in Paths : disk[path] # None

\* C16: when an op of an fs.apply_patch op list fails during planning, the
\* call creates, modifies, renames and deletes no file, also when earlier
\* ops of the list succeeded and dry_run is false; its result is the error.
C16_FailedPlanChangesNothing ==
    (planner.caller = "apply_patch" /\ planner.failed) =>
        /\ disk = planner.disk0
        /\ planner.pc = "done" => ~planner.result[1].ok

\* C16 witness: with dry_run false, the first op has planned a change, the
\* second has failed, and the call is over
C16_Witness ==
    /\ planner.pc = "done" /\ planner.caller = "apply_patch"
    /\ ~planner.pl.dry_run /\ planner.failed /\ planner.n = 2
    /\ planner.pl.modified \cup planner.pl.created \cup planner.pl.deleted # {}
    /\ ~planner.result[1].ok

\* the apply_op call just made was a RenameFile
LastRename == planner.last # None /\ planner.last[1].op.op = "RenameFile"

TimedOutPending(s) ==
    /\ disp[s].tool = "ShellExec"
    /\ disp[s].wait_result = "timeout"
    /\ ~ExecutorReturned(s)

\* C18: once timeout_ms has elapsed without the child exiting, shell.exec
\* goes on to kill the child and return 'Command timed out' by its own steps
\* alone: it is never held up by a reader task that has not finished, so it
\* returns even if the child never exits or never closes its pipes.
C18_TimeoutNeverBlocks ==
    \A s \in Slots : TimedOutPending(s) => ENABLED DispatcherStep(s)

\* C19: when the child has not exited within timeout_ms, what shell.exec
\* returns is Err("Command timed out"), never an Ok result, and it has sent
\* no ToolResult event for its id.
C19_TimeoutIsError ==
    \A s \in Slots :
        (disp[s].tool = "ShellExec" /\ disp[s].wait_result = "timeout"
             /\ ExecutorReturned(s)) =>
            /\ disp[s].result[1] = Err("Command timed out")
            /\ Count("ToolResult", disp[s].id) = 0

\* C19 witness: execute_with_result has returned after a timeout, with
\* output streamed before the child was gone and the receiver still alive
C19_Witness ==
    /\ disp[1].tool = "ShellExec" /\ ~disp[1].legacy
    /\ disp[1].wait_result = "timeout" /\ ExecutorReturned(1)
    /\ disp[1].stdout_task.lines # <<>>
    /\ receiverAlive

\* execute_with_result has returned after its child exited with a non-zero code
ExitedNonZero(s) ==
    /\ disp[s].tool = "ShellExec" /\ ~disp[s].legacy
    /\ disp[s].wait_result = "exited" /\ disp[s].child.exit_code # 0
    /\ ExecutorReturned(s)

\* C20: when the child has exited with a non-zero code N, shell.exec
\* (execute_with_result) has emitted exactly one ToolResult for its id, with
\* exit_code N and the collected stdout and stderr, by the time it returns,
\* and what it returns is Err("Command failed with exit code: N"); every
\* ToolEnd of the dispatch has ok = false and lies after that ToolResult,
\* and there is one once the dispatch is over.
C20_NonZeroExitResultThenErr ==
    \A s \in Slots :
        ExitedNonZero(s) =>
            LET i == disp[s].id
                N == disp[s].child.exit_code
            IN  /\ disp[s].result[1] = ExitCodeErr(N)
                /\ Count("ToolResult", i) = 1
                /\ \A r \in Positions("ToolResult", i) :
                      /\ bus[r].data.exit_code = N
                      /\ bus[r].data.stdout = Join(disp[s].stdout_task.lines)
                      /\ bus[r].data.stderr = Join(disp[s].stderr_task.lines)
                      /\ \A e \in Positions("ToolEnd", i) : r < e
                /\ \A e \in Positions("ToolEnd", i) : bus[e].data = FALSE
                /\ disp[s].pc = "done" => Count("ToolEnd", i) = 1

\* C20 witness: the dispatch of a command that wrote to both pipes and
\* exited with a non-zero code is over, its ToolEnd sent to a live receiver
C20_Witness ==
    /\ ExitedNonZero(1) /\ disp[1].pc = "done"
    /\ disp[1].stdout_task.lines # <<>> /\ disp[1].stderr_task.lines # <<>>
    /\ Count("ToolEnd", "a") = 1
    /\ receiverAlive

StreamTypes == {"ToolStdout", "ToolStderr"}

\* the number of the line a ToolStdout or ToolStderr event carries: the
\* position of that line among all the lines the child wrote
LineNo(e) == e.data[1]

\* C21: the ToolStdout and ToolStderr events of one shell.exec call are on
\* the bus in the order in which the child wrote their lines, also across
\* the two streams.
C21_StreamsKeepWriteOrder ==
    \A s \in Slots : \A k, j \in 1..Len(bus) :
        (k < j /\ bus[k].id = SlotId(s) /\ bus[j].id = SlotId(s)
              /\ bus[k].type \in StreamTypes /\ bus[j].type \in StreamTypes) =>
            LineNo(bus[k]) < LineNo(bus[j])

\* the errors that report a failed event send
SendErrors ==
    {"Failed to send ToolBegin event", "Failed to send ToolEnd event",
     "Failed to send progress event", "Failed to send result event",
     "Failed to send ToolResult"}

\* C22: with the receiver dropped, a failed send is ignored by its producer:
\* a finished execute_tool_with_result has run the tool and has returned the
\* tool's own result, and neither an executor nor the dispatcher has
\* returned an error that only reports a failed send.
C22_SendFailuresSwallowed ==
    \A s \in Slots :
        (disp[s].pc = "done" /\ ~disp[s].legacy) =>
            /\ ExecutorReturned(s)
            /\ disp[s].ret = disp[s].result
            /\ ~disp[s].ret[1].ok => disp[s].ret[1].val.error \notin SendErrors

\* the file holds what save() writes for the current messages: save() was
\* the last write and no mutator has changed the vector since
JustSaved == history_file = Some(messages_to_string(messages))

\* C24 as stated: save() followed by load_into(None) leaves the message
\* vector equal to the one that was saved, whatever the vector.
C24_SaveLoadRoundTrip ==
    [][ (JustSaved /\ LoadInto) => messages' = messages ]_vars

Welcome == <<ChatMessage("System", "welcome", None)>>

\* a message whose tool result is Some(Value::Null) with the result absent
NullResultDropped(m) ==
    IF m.tool_info # None /\ m.tool_info[1].result = Some("null")
    THEN [m EXCEPT !.tool_info = Some([m.tool_info[1] EXCEPT !.result = None])]
    ELSE m

\* C24 amended: save() followed by load_into(None) leaves the saved vector,
\* with two exceptions: an empty vector comes back as the single welcome
\* System message, and a tool message's result that is Some(JSON null)
\* comes back as None.
C24_RoundTripButEmptyAndNull ==
    [][ (JustSaved /\ LoadInto) =>
          messages' = IF messages = <<>> THEN Welcome
                      ELSE [k \in 1..Len(messages) |-> NullResultDropped(messages[k])] ]_vars

\* C24 witness: the empty vector was saved and loaded: the session holds the
\* welcome message, which only load_into adds, and the file an empty vector
C24_Witness ==
    /\ messages = Welcome
    /\ history_file = Some(<<>>)

\* the step appends an Agent message to the vector
AgentPushed ==
    /\ Len(messages') = Len(messages) + 1
    /\ messages'[Len(messages')].role = "Agent"
    /\ SubSeq(messages', 1, Len(messages)) = messages

\* C25: the session saves on add_agent_message and on no other mutator:
\* right after add_agent_message the history file holds the whole message
\* vector, the new Agent message included, and add_user_message,
\* add_system_message, add_error_message, add_tool_message, the
\* handle_tool_* handlers and clear leave the file as it was.
C25_AutoSaveOnAgentMessageOnly ==
    [][ /\ AgentPushed =>
              /\ history_file' # None
              /\ Len(history_file'[1]) = Len(messages')
              /\ \A k \in 1..Len(messages') :
                    history_file'[1][k] = ser_message(messages'[k])
        /\ ~AgentPushed => history_file' = history_file ]_vars

\* C25 witness: a tool message with a result is followed by an Agent
\* message, and the file holds both
C25_Witness ==
    /\ Len(messages) = 2
    /\ IsTool(messages[1]) /\ messages[1].tool_info[1].result # None
    /\ messages[2].role = "Agent"
    /\ history_file = Some(messages_to_string(messages))

\* the terminal events the event loop has handled
HandledTerminals == {k \in 1..tui.handled : bus[k].type \in TerminalTypes}

\* C23: at most one submission is in flight: the submissions started are at
\* most one more than the terminal events (AgentResponse, AgentError) that
\* have been handled, so a submit_input between the start of a submission
\* and the handling of its terminal event starts nothing.
C23_OneSubmissionInFlight ==
    Len(tui.tasks) - Cardinality(HandledTerminals) <= 1

Validated == validation.result # None

RequiredKeys(tool) == {required(tool)[i] : i \in 1..Len(required(tool))}

HasKey(v, key) == key \in DOMAIN v.fields /\ v.fields[key] \in JsonTypes

\* C26: validate_args(tool, v) is Ok iff v is an object that holds every
\* key of the tool's "required" array, whatever the types of the values; a
\* non-object fails with 'Arguments must be an object' and an object
\* without a required key k with 'Missing required field: k'.
C26_ValidateArgsRequiredKeysOnly ==
    Validated =>
        LET tool == validation.tool
            v == validation.args
            r == validation.result[1]
        IN  /\ r.ok <=> (v.kind = "object" /\ \A k \in RequiredKeys(tool) : HasKey(v, k))
            /\ v.kind # "object" =>
                  r = ValidationError("Arguments must be an object", "")
            /\ (v.kind = "object" /\ ~r.ok) =>
                  /\ r.val.error.msg = "Missing required field"
                  /\ r.val.error.field \in RequiredKeys(tool)
                  /\ ~HasKey(v, r.val.error.field)

\* C26 witness: fs.write arguments whose required keys are all there, one of
\* them with a number where the tool wants a string, have been accepted
C26_Witness ==
    /\ Validated /\ validation.result[1].ok
    /\ validation.tool = "FsWrite"
    /\ validation.args.fields["path"] = "number"
    /\ validation.args.fields["command"] = "absent"

\* the turn requests OpenRouterAgent::submit has sent
TurnRequests == {k \in 1..Len(http.tries) : http.tries[k] = "turn"}

\* C27: OpenRouterAgent.submit sends at most 8 turn requests in one
\* submission; with the model still asking for tools after the eighth, it
\* returns Processing("Too many tool turns") and sends no ninth.
C27_AtMostEightTurnRequests ==
    Cardinality(TurnRequests) <= max_tool_turns


\* the positions of the ToolBegin events on the bus
ToolBegins == {k \in 1..Len(bus) : bus[k].type = "ToolBegin"}

\* C28: every ToolBegin event of a session carries an id that no earlier
\* ToolBegin carried (the dispatcher would issue the ids itself).
C28_ToolBeginIdsUnique ==
    \A j, k \in ToolBegins : bus[j].id = bus[k].id => j = k


\* the positions on the bus of the events of one type
EventsOfType(type) == {k \in 1..Len(bus) : bus[k].type = type}

\* the positions on the bus of the events a tool dispatch emits
ToolEvents == {k \in 1..Len(bus) : bus[k].id # ""}

\* submit has returned Ok
SubmitReturnedOk ==
    agent.pc \in {"returned", "finished"} /\ agent.result[1].ok

\* C29: MultiModelAgent.submit emits ChatCreated exactly once, before the
\* first provider request; once it has returned Ok the bus holds exactly one
\* ChatCompleted, which comes after every event of the tools dispatched in
\* the submission (their ToolEnd included, and no dispatch is still running)
\* and before the AgentResponse event.
C29_ChatCreatedAndCompletedOnce ==
    /\ Cardinality(EventsOfType("ChatCreated")) <= 1
    /\ (agent.turns >= 1 \/ http.tries # <<>>)
          => Cardinality(EventsOfType("ChatCreated")) = 1
    /\ agent.pc \in {"idle", "seed", "turn"} /\ agent.turns = 0
          => http.tries = <<>>
    /\ SubmitReturnedOk =>
          /\ Cardinality(EventsOfType("ChatCompleted")) = 1
          /\ disp[1].pc = "idle"
          /\ \A c \in EventsOfType("ChatCompleted") :
                /\ \A e \in ToolEvents : e < c
                /\ \A r \in EventsOfType("AgentResponse") : c < r
    /\ ~SubmitReturnedOk /\ agent.pc # "finished"
          => EventsOfType("AgentResponse") = {}

\* submit returned Ok after a tool ran, and AgentResponse was sent
C29_Witness ==
    /\ SubmitReturnedOk
    /\ EventsOfType("ToolEnd") # {}
    /\ EventsOfType("AgentResponse") # {}
    /\ EventsOfType("ChatCompleted") # {}


\* the names of the tools of the catalog, as the provider spells them
CatalogNames ==
    {"fs.read", "fs.search", "fs.write", "fs.apply_patch", "fs.find",
     "fs.read_all_code", "shell.exec", "code.symbols", "large_context_fetch"}

\* a tool call naming no tool of the catalog, or whose arguments string is
\* not valid JSON
BadCall(call) == call.name \notin CatalogNames \/ call.arguments = "not_json"

\* submit is at a bad call of the response it is working through
AtBadCall ==
    /\ agent.pc = "calls"
    /\ agent.k <= Len(agent.calls)
    /\ BadCall(agent.calls[agent.k])

\* submit has returned the error of a bad call
AbortedOnBadCall ==
    /\ agent.pc \in {"returned", "finished"}
    /\ ~agent.result[1].ok
    /\ agent.result[1].val.error.kind = "Processing"
    /\ agent.result[1].val.error.msg \in {"unknown tool", "invalid tool args"}

\* C30: at a tool call that names an unknown tool or has arguments that are
\* not valid JSON, submit's next step returns AgentError::Processing and
\* does nothing else: nothing is dispatched, no request is made, and what
\* earlier tools of the response left (their events, their role=tool
\* messages, the files) stays as it is.  After that return no tool is
\* dispatched and no provider request is made.
C30_BadCallAbortsSubmit ==
    [][ /\ (AtBadCall /\ agent' # agent) =>
              /\ AbortedOnBadCall'
              /\ agent'.k = agent.k
              /\ agent'.messages = agent.messages
              /\ agent'.outcomes = agent.outcomes
              /\ bus' = bus /\ disp' = disp /\ http' = http /\ disk' = disk
        /\ AbortedOnBadCall =>
              /\ AbortedOnBadCall'
              /\ agent'.k = agent.k
              /\ agent'.messages = agent.messages
              /\ disp' = disp /\ http' = http /\ disk' = disk
              /\ ToolBegins' = ToolBegins
      ]_vars


\* the positions on the bus of the events of some types that carry an id
EventsFor(id, types) == {k \in 1..Len(bus) : bus[k].id = id /\ bus[k].type \in types}

\* C31: once the legacy ShellExecutor::execute has sent its ToolResult, the
\* bus holds a ToolStdout or ToolStderr event for every line the child
\* wrote, all of them before the ToolResult event.
C31_LegacyStreamsEveryLine ==
    \A s \in Slots :
        (disp[s].legacy /\ disp[s].tool = "ShellExec") =>
            \A r \in EventsFor(disp[s].id, {"ToolResult"}) :
                /\ Cardinality(EventsFor(disp[s].id, StreamTypes))
                      = Len(disp[s].child.script)
                /\ \A k \in EventsFor(disp[s].id, StreamTypes) : k < r


\* fs.read has handled the range
ReadDone == fsread.outcome # None

\* C32: fs.read with range {start, end} on a file of length len never fails
\* because of the range: for start < len it returns the bytes
\* [start, min(end, len)) (none when end < start) with truncated = (end < len),
\* and for start >= len empty contents with truncated = false.
C32_ReadRangeTotal ==
    ReadDone =>
        LET text == fsread.text
            start == fsread.start
            end == fsread.end
            r == fsread.outcome[1]
        IN  /\ ~r.panic
            /\ IF start < Len(text)
               THEN /\ r.contents = SubSeq(text, start + 1, Min(end, Len(text)))
                    /\ r.truncated = (end < Len(text))
               ELSE r.contents = <<>> /\ ~r.truncated


\* the Tool messages of the i-th submission that are still Running
RunningToolsOf(i) ==
    {k \in 1..Len(messages) :
        /\ IsToolWithId(messages[k], TaskCallId(i))
        /\ messages[k].tool_info[1].status = "Running"}

\* the submissions whose terminal event the event loop has handled: the
\* senders of the first terminal events of the bus
TerminalHandledOf ==
    {tui.terminals[n] : n \in 1..Cardinality(HandledTerminals)}

\* C33: once the UI has handled the terminal event of a submission, no Tool
\* message created by a ToolBegin of that submission is Running: each is
\* Completed or Failed (or was cleared).
C33_ToolsSettledAtTerminal ==
    \A i \in TerminalHandledOf : RunningToolsOf(i) = {}

\* the terminal event of the first submission has been handled and the
\* transcript holds two of its Tool messages, one Completed and one Failed
C33_Witness ==
    /\ 1 \in TerminalHandledOf
    /\ \E k, j \in 1..Len(messages) :
          /\ IsToolWithId(messages[k], TaskCallId(1))
          /\ IsToolWithId(messages[j], TaskCallId(1))
          /\ messages[k].tool_info[1].status = "Completed"
          /\ messages[j].tool_info[1].status = "Failed"


\* the chunks of the events of one type and id, in the order of the bus
ChunksOn(type, id) ==
    LET Is(e) == e.type = type /\ e.id = id
        sel == SelectSeq(bus, Is)
    IN  [k \in 1..Len(sel) |-> sel[k].data]

\* the payloads of the ToolResult events execute_with_result sent for shell.exec
ShellResultsOn(s) ==
    IF disp[s].tool = "ShellExec" /\ ~disp[s].legacy
    THEN {bus[k].data : k \in Positions("ToolResult", disp[s].id)}
    ELSE {}

\* the tool_info of the Tool messages of a dispatch that hold its result
ToolInfosWithResult(s) ==
    {messages[k].tool_info[1] : k \in
        {j \in 1..Len(messages) :
            /\ IsToolWithId(messages[j], disp[s].id)
            /\ messages[j].tool_info[1].result # None}}

\* C34: the stdout of a shell.exec result is the concatenation, in emission
\* order, of the ToolStdout chunks emitted for the id, and its stderr that
\* of the ToolStderr chunks; so the tool_info.stdout and tool_info.stderr
\* the session has built from the events when it stores the result equal
\* the result's fields.
C34_ResultIsStreamedChunks ==
    \A p \in ShellResultsOn(1) :
        /\ p.stdout = ChunksOn("ToolStdout", disp[1].id)
        /\ p.stderr = ChunksOn("ToolStderr", disp[1].id)
        /\ \A ti \in ToolInfosWithResult(1) :
              /\ ti.result = Some(p)
              /\ ti.stdout = p.stdout
              /\ ti.stderr = p.stderr


\* submit is about to send a follow-up request of the turn loop
AtFollowUp == agent.pc = "post" /\ agent.turns >= 2 /\ http.tries = <<>>

\* the index of the last assistant message that carries tool_calls
LastToolCallsAt ==
    LET hits == {p \in 1..Len(agent.messages) :
                    /\ agent.messages[p].role = "assistant"
                    /\ agent.messages[p].tool_calls # None}
    IN  IF hits = {} THEN 0 ELSE CHOOSE p \in hits : \A q \in hits : q <= p

\* the role=tool messages with a tool_call_id that follow position p
ToolMessagesAfter(p, id) ==
    {j \in (p + 1)..Len(agent.messages) :
        /\ agent.messages[j].role = "tool"
        /\ agent.messages[j].tool_call_id = Some(id)}

AtRequest == agent.pc = "post" /\ http.tries = <<>>

\* the tool call ids an assistant message lists
ListedIds(m) ==
    IF m.role = "assistant" /\ m.tool_calls # None
    THEN {m.tool_calls[1][j].id : j \in 1..Len(m.tool_calls[1])}
    ELSE {}

\* C36: in every request body each role=tool message is preceded by an
\* assistant message whose tool_calls contains its tool_call_id, also when
\* the tool message comes from the session history of an earlier submission.
C36_ToolMessageFollowsItsCall ==
    AtRequest =>
        \A j \in 1..Len(agent.messages) :
            agent.messages[j].role = "tool" =>
                /\ agent.messages[j].tool_call_id # None
                /\ \E p \in 1..(j - 1) :
                      agent.messages[j].tool_call_id[1] \in ListedIds(agent.messages[p])

\* the role=user messages of the request that carry the submitted text
UserCopies ==
    {j \in 1..Len(agent.messages) :
        /\ agent.messages[j].role = "user"
        /\ agent.messages[j].content = Some(Text(agent.input))}

\* C37: in the first request of a submission made through handle_user_input
\* the user's text occurs exactly once as a role=user message, and that is
\* the last message of the request.
C37_UserTextOnceAndLast ==
    (AtRequest /\ agent.turns = 1) =>
        UserCopies = {Len(agent.messages)}


\* the last apply_op call was made on a path that an earlier RenameFile of
\* the op list renamed away and that has had no plan entry since
OnRenamedAway ==
    /\ planner.pc = "planning"
    /\ planner.last # None
    /\ LET l == planner.last[1]
       IN  /\ l.op.op \in EditKinds \cup {"DeleteFile", "RenameFile"}
           /\ l.op.op = "RenameFile" => l.op.path # l.op.to
           /\ \E k \in 1..Len(l.plan.renames) : l.plan.renames[k].from = l.op.path
           /\ l.op.path \notin DOMAIN l.plan.files

\* C38: within one op list, after RenameFile{path: a, to: b} has been
\* planned, a later ReplaceOnce, InsertBefore, InsertAfter, DeleteFile or
\* RenameFile whose path is a fails with a 'File not found' error.
C38_RenamedAwayIsNotFound ==
    OnRenamedAway =>
        /\ ~planner.last[1].ok
        /\ planner.last[1].error = "File not found"

\* C39: after any sequence of successful apply_op calls the created,
\* modified and deleted sets are pairwise disjoint, every deleted path has a
\* plan entry with original present and current absent, and every created
\* path has a plan entry with original absent and current present.
C39_ClassificationSetsConsistent ==
    (planner.pc = "planning" /\ ~planner.failed) =>
        LET pl == planner.pl
        IN  /\ pl.created \cap pl.modified = {}
            /\ pl.created \cap pl.deleted = {}
            /\ pl.modified \cap pl.deleted = {}
            /\ \A path \in pl.deleted :
                  /\ path \in DOMAIN pl.files
                  /\ pl.files[path].original # None
                  /\ pl.files[path].current = None
            /\ \A path \in pl.created :
                  /\ path \in DOMAIN pl.files
                  /\ pl.files[path].original = None
                  /\ pl.files[path].current # None

\* two successful ops have moved a path between the sets: a file that was
\* deleted and then set again is modified and no longer deleted
C39_Witness ==
    /\ planner.pc = "planning" /\ ~planner.failed /\ planner.n = 2
    /\ planner.last # None
    /\ planner.last[1].op.op = "SetFile"
    /\ planner.last[1].op.path \in planner.last[1].plan.deleted
    /\ planner.last[1].op.path \in planner.pl.modified


\* the errors load_into can return
LoadErrors ==
    {"No history file found", "stream did not contain valid UTF-8", "expected value"}

\* C40: when load_into fails (history file missing, unreadable, or not the
\* JSON of a message array) it returns Err and the session's message vector
\* is exactly what it was before the call.
C40_FailedLoadKeepsMessages ==
    [][ (LoadInto /\ ~load_result'[1].ok) =>
            /\ load_result'[1].val.error \in LoadErrors
            /\ messages' = messages ]_vars

\* load_into has just failed on a file that is not the JSON of a message
\* array, in a session that holds messages
C40_Witness ==
    /\ load_result # None
    /\ ~load_result[1].ok
    /\ load_result[1].val.error = "expected value"
    /\ history_file = Some(NotMessages)
    /\ messages # <<>>

====
